---- MODULE Spec2Model ----
(***************************************************************************)
(* Personal-finance REST backend (prthm2910/LJ-Hackathon-Backend).         *)
(*                                                                         *)
(* State: the relational store (Users and the four financial tables), the  *)
(* process-wide pipeline handle full_chain of agent.py, the chat request   *)
(* in flight with its pipeline stage, and the last HTTP response of the    *)
(* CRUD handlers, the number of engines each server process has built,     *)
(* the handler connections with a transaction in flight, the run of the    *)
(* ingestion script, and the SQL texts the last chart request sent.        *)
(* SpecChat runs the natural-language pipeline                             *)
(* together with the permission-update and reload handlers; SpecCrud runs  *)
(* the user CRUD and utility handlers of agent.py and Routers/Users.py;    *)
(* SpecSettings the permission endpoints of agent1.py and app/main.py;     *)
(* SpecRecords the statement-by-statement create / add / delete handlers;  *)
(* SpecIngest the ingestion script; SpecCharts the chart endpoints.        *)
(***************************************************************************)
EXTENDS Integers, Sequences, FiniteSets, TLC

VARIABLES Users, Transactions, Assets, Liabilities, Investments,
          full_chain, chat, resp, engines, conns, ingest, sql

vars == <<Users, Transactions, Assets, Liabilities, Investments,
          full_chain, chat, resp, engines, conns, ingest, sql>>

tables == <<Users, Transactions, Assets, Liabilities, Investments>>

\* what is on the database connections: the handler transactions in
\* flight, the ingestion run, and the statements the last chart handler sent
inflight == <<conns, ingest, sql>>

(***************************************************************************)
(* Bounds of the model and the small input sets.                           *)
(***************************************************************************)
\* chat requests handled in one run
MaxRequests == 2

UserIds == {"user_001", "user_002"}

\* a question text, as the request body carries it
Question(text) == [kind |-> "question", text |-> text]

Questions == {Question("what are my assets"), Question("what is my net worth")}

\* messages of the exceptions the hosted model / SQL toolkit can raise
UpstreamErrors == {"upstream timeout"}

\* engines one server process builds in one run
MaxEngines == 3

\* runs of the ingestion script
MaxRuns == 2

\* the server programs of the repository, one process each (Routers/Users.py
\* imports get_engine from agent, so it runs in the agent process)
Processes == {"agent", "agent1", "app"}

(***************************************************************************)
(* Data model: Users columns and the disclosable categories.               *)
(***************************************************************************)
PermFlags == {"perm_assets", "perm_liabilities", "perm_transactions",
              "perm_investments", "perm_credit_score", "perm_epf_balance"}

Categories == {"assets", "liabilities", "transactions", "investments",
               "credit_score", "epf_balance"}

\* the category a permission flag gates
CategoryOf(flag) ==
  CASE flag = "perm_assets"       -> "assets"
    [] flag = "perm_liabilities"  -> "liabilities"
    [] flag = "perm_transactions" -> "transactions"
    [] flag = "perm_investments"  -> "investments"
    [] flag = "perm_credit_score" -> "credit_score"
    [] flag = "perm_epf_balance"  -> "epf_balance"

\* dict.get(key, default)
Get(d, k, default) == IF k \in DOMAIN d THEN d[k] ELSE default

EmptyDict == [k \in {} |-> TRUE]

NoValue == [kind |-> "none"]

\* a Users row as the INSERT of create_user writes it
UserRow(user_id, name, credit_score, epf_balance, perms) ==
  [user_id |-> user_id, name |-> name,
   credit_score |-> credit_score, epf_balance |-> epf_balance,
   perm_assets |-> perms["perm_assets"],
   perm_liabilities |-> perms["perm_liabilities"],
   perm_transactions |-> perms["perm_transactions"],
   perm_investments |-> perms["perm_investments"],
   perm_credit_score |-> perms["perm_credit_score"],
   perm_epf_balance |-> perms["perm_epf_balance"]]

AllFlags(b) == [f \in PermFlags |-> b]

\* SELECT ... FROM Users WHERE user_id = :user_id  (fetchone is not None)
UserExists(U, user_id) == user_id \in DOMAIN U

\* result.rowcount of an UPDATE ... WHERE user_id = :user_id
RowCount(U, user_id) == IF UserExists(U, user_id) THEN 1 ELSE 0

\* the categories whose flag is false in the user's row
DeniedCategories(U, user_id) ==
  {CategoryOf(f) : f \in {g \in PermFlags : ~U[user_id][g]}}

(***************************************************************************)
(* HTTP responses and exceptions.                                          *)
(***************************************************************************)
\* raise HTTPException(status_code=..., detail=...)
HTTPException(status_code, detail) ==
  [type |-> "HTTPException", status_code |-> status_code, detail |-> detail]

\* any other exception (engine creation, query, commit, hosted-model call)
Exception(message) == [type |-> "Exception", message |-> message]

StatusText(status_code) ==
  CASE status_code = 400 -> "400: "
    [] status_code = 404 -> "404: "
    [] status_code = 409 -> "409: "
    [] status_code = 500 -> "500: "
    [] status_code = 503 -> "503: "

\* str(e): an HTTPException prints as "<status_code>: <detail>"
Str(e) ==
  IF e.type = "HTTPException"
    THEN <<StatusText(e.status_code)>> \o e.detail
    ELSE e.message

\* the response FastAPI sends for an HTTPException leaving the handler
ErrorResponse(e) ==
  [status_code |-> e.status_code, detail |-> e.detail, body |-> NoValue]

\* the response for a handler that returns a body
OkResponse(body) == [status_code |-> 200, detail |-> <<>>, body |-> body]

\* an exception that leaves a handler uncaught: the server answers 500
UnhandledResponse(e) ==
  ErrorResponse(HTTPException(500, <<"Internal Server Error">>))

(***************************************************************************)
(* Connection provider and pipeline construction (agent.py).               *)
(***************************************************************************)
None == [kind |-> "None"]

\* SQLDatabase(db_engine): no include_tables, so every table and every
\* Users column is reflected into the schema handed to the SQL agent
SQLDatabase == Categories

\* the chain init_agent assigns to full_chain; it closes over db, which
\* wraps the engine this call of init_agent built
SequentialChain(db_engine) ==
  [kind |-> "chain", db |-> SQLDatabase, engine |-> db_engine]

\* get_engine(): raises when the database is unreachable
get_engine(db_up) ==
  IF db_up THEN [raised |-> FALSE, error |-> NoValue]
           ELSE [raised |-> TRUE,
                 error |-> Exception(<<"connection refused">>)]

\* engine = sqlalchemy.create_engine(db_uri): every call of get_engine()
\* builds a new engine in process p, reachable database or not
create_engine(E, p) == [E EXCEPT ![p] = @ + 1]

\* (mutant of init_agent: a failing call clears the handle)
init_agent_ClearsOnFailure(current, api_key_set, db_up, db_engine) ==
  IF api_key_set /\ db_up
    THEN [full_chain |-> SequentialChain(db_engine), raised |-> FALSE, error |-> NoValue]
    ELSE [full_chain |-> None, raised |-> TRUE,
          error |-> Exception(<<"initialization failed">>)]

\* init_agent(): the value of full_chain afterwards and the exception
\* raised; db_engine is the engine its get_engine() call builds
init_agent(current, api_key_set, db_up, db_engine) ==
  IF ~api_key_set
    THEN [full_chain |-> current, raised |-> TRUE,
          error |-> Exception(<<"Error: GOOGLE_API_KEY environment variable not set or empty.">>)]
    ELSE IF get_engine(db_up).raised
      THEN [full_chain |-> current, raised |-> TRUE,
            error |-> get_engine(db_up).error]
      ELSE [full_chain |-> SequentialChain(db_engine), raised |-> FALSE,
            error |-> NoValue]

\* module import: try: init_agent()  except: full_chain = None
StartupChain(api_key_set, db_up) ==
  IF init_agent(None, api_key_set, db_up, 1).raised
    THEN None
    ELSE init_agent(None, api_key_set, db_up, 1).full_chain

(***************************************************************************)
(* The three stages of the sequential chain.                               *)
(***************************************************************************)
\* reformulate_prompt | llm | StrOutputParser(): the template is filled
\* with {question} and {user_id}
Reformulate(input_data) ==
  [kind |-> "reformulated", question |-> input_data.question,
   user_id |-> input_data.user_id]

\* first step of full_chain: the dict of the two parallel branches
ParallelStep(input_data) ==
  [reformulated_question |-> Reformulate(input_data),
   original_question |-> input_data.question]

\* (mutant of SqlAgentInput: the SQL agent is fed the original question)
SqlAgentInput_FedOriginal(x) == x.original_question

\* sql_agent_executor.invoke({"input": x["reformulated_question"]})
SqlAgentInput(x) == x.reformulated_question

\* the statements the LLM-driven SQL agent may run over db: a read of any
\* reflected category, or DML (the connection is not read-only)
AgentStatements(db, input) ==
  {[op |-> "SELECT", category |-> c, user_id |-> Get(input, "user_id", "-")]
     : c \in db}
  \cup {[op |-> "DELETE", category |-> c, user_id |-> Get(input, "user_id", "-")]
     : c \in db \cap {"transactions"}}

\* the Transactions table after the SQL agent ran stmt (SQLDatabase.run
\* executes and commits whatever statement it is given)
RunStatement(T, stmt) ==
  IF stmt.op = "DELETE" /\ stmt.user_id \in DOMAIN T
    THEN [T EXCEPT ![stmt.user_id] = <<>>]
    ELSE T

\* ["output"] of the SQL agent
SqlData(stmt) == [kind |-> "sql_data", statement |-> stmt]

\* the variables synthesize_template reads from the dict
SynthesizeInput(x) ==
  [original_question |-> x.original_question, sql_data |-> x.sql_data]

\* synthesize_prompt | llm | StrOutputParser()
Synthesize(p) ==
  [kind |-> "answer", original_question |-> p.original_question,
   sql_data |-> p.sql_data]

(***************************************************************************)
(* POST /api/v1/ai/chat (agent.py; app/main.py has the same handler over   *)
(* ai_agent.full_chain).                                                   *)
(***************************************************************************)
NoCalls == [reformulate |-> 0, sql |-> 0, synthesize |-> 0]

IdleChat ==
  [id |-> 0, user_id |-> "-", question |-> NoValue, chain |-> None,
   checked |-> None, stage |-> "Idle", x |-> NoValue, sql_input |-> NoValue,
   synth_input |-> NoValue, answer |-> NoValue, error |-> NoValue,
   calls |-> NoCalls, response |-> NoValue]

Resting == {"Idle", "Rejected", "Done", "Failed"}

\* if not full_chain
NotInitialized(chain) == chain = None

\* (mutant of ChatExcept: a stage failure is reported as 503)
ChatExcept_As503(e) ==
  HTTPException(503, <<"An internal error occurred: ">> \o Str(e))

\* except Exception as e: raise HTTPException(500, f"An internal error occurred: {e}")
ChatExcept(e) ==
  HTTPException(500, <<"An internal error occurred: ">> \o Str(e))

\* the counter of the call a working stage makes
StageCall(stage) ==
  CASE stage = "Reformulating" -> "reformulate"
    [] stage = "Executing" -> "sql"
    [] OTHER -> "synthesize"

\* (mutant of ChainRaised: the failed call is made once more)
ChainRaised_Retries(c, e) ==
  [c EXCEPT !.calls = [c.calls EXCEPT ![StageCall(c.stage)] = @ + 1]]

\* an exception raised inside full_chain.invoke while `stage` was running:
\* it propagates out of the chain into the handler's except clause
ChainRaised(c, e) ==
  [c EXCEPT !.stage = "Failed",
            !.error = [stage |-> c.stage, exception |-> e],
            !.response = ErrorResponse(ChatExcept(e))]

\* (mutant of ReformulateRaised: the failure is swallowed and the raw
\* question goes on to the SQL agent)
ReformulateRaised_FallsBack(c, e) ==
  [c EXCEPT !.stage = "Executing",
            !.x = [reformulated_question |-> c.question,
                   original_question |-> c.question],
            !.sql_input = c.question,
            !.calls = [c.calls EXCEPT !.sql = @ + 1]]

\* the reformulation call raised: nothing in the chain catches it
ReformulateRaised(c, e) == ChainRaised(c, e)

\* return {"user_id": ..., "question": ..., "answer": final_answer}
ChatBody(c, final_answer) ==
  [user_id |-> c.user_id, question |-> c.question, answer |-> final_answer]

\* handler entry: `if not full_chain` reads the global a first time
ChatStart(user_id, question) ==
  /\ chat.stage \in Resting
  /\ chat.id < MaxRequests
  /\ chat' = IF NotInitialized(full_chain)
       THEN [IdleChat EXCEPT
               !.id = chat.id + 1, !.user_id = user_id,
               !.question = question, !.chain = full_chain,
               !.stage = "Rejected",
               !.response = ErrorResponse(HTTPException(503,
                  <<"AI Agent is not initialized. Check server logs.">>))]
       ELSE [IdleChat EXCEPT
               !.id = chat.id + 1, !.user_id = user_id,
               !.question = question, !.chain = full_chain,
               !.checked = full_chain, !.stage = "Checked"]
  /\ UNCHANGED <<tables, full_chain, resp, engines, inflight>>

\* 'NoneType' object has no attribute 'invoke'
NoneInvoked == Exception(<<"'NoneType' object has no attribute 'invoke'">>)

\* full_chain.invoke(input_data): the global is read a second time (the
\* handler is a coroutine, reload_agent runs on a worker thread) and the
\* chain found there starts with the parallel step
ChatInvoke ==
  /\ chat.stage = "Checked"
  /\ chat' = IF full_chain = None
       THEN ChainRaised([chat EXCEPT !.chain = full_chain], NoneInvoked)
       ELSE [chat EXCEPT !.chain = full_chain,
                         !.stage = "Reformulating",
                         !.calls = [NoCalls EXCEPT !.reformulate = 1]]
  /\ UNCHANGED <<tables, full_chain, resp, engines, inflight>>

\* the parallel step returns (or the hosted model raises)
ReformulateReturns ==
  /\ chat.stage = "Reformulating"
  /\ \/ LET x == ParallelStep([question |-> chat.question,
                               user_id |-> chat.user_id])
        IN chat' = [chat EXCEPT !.stage = "Executing",
                                !.x = x,
                                !.sql_input = SqlAgentInput(x),
                                !.calls = [chat.calls EXCEPT !.sql = @ + 1]]
     \/ \E msg \in UpstreamErrors :
          chat' = ReformulateRaised(chat, Exception(<<msg>>))
  /\ UNCHANGED <<tables, full_chain, resp, engines, inflight>>

\* RunnablePassthrough.assign(sql_data=...): the SQL agent returns or raises
SqlAgentReturns ==
  /\ chat.stage = "Executing"
  /\ \/ \E stmt \in AgentStatements(chat.chain.db, chat.sql_input) :
          LET x == [reformulated_question |-> chat.x.reformulated_question,
                    original_question |-> chat.x.original_question,
                    sql_data |-> SqlData(stmt)]
          IN /\ chat' = [chat EXCEPT !.stage = "Synthesizing",
                                     !.x = x,
                                     !.synth_input = SynthesizeInput(x),
                                     !.calls = [chat.calls EXCEPT !.synthesize = @ + 1]]
             /\ Transactions' = RunStatement(Transactions, stmt)
     \/ /\ \E msg \in UpstreamErrors :
             chat' = ChainRaised(chat, Exception(<<msg>>))
        /\ UNCHANGED Transactions
  /\ UNCHANGED <<Users, Assets, Liabilities, Investments, full_chain, resp,
                 engines, inflight>>

\* the synthesizer returns final_answer (or the hosted model raises)
SynthesizeReturns ==
  /\ chat.stage = "Synthesizing"
  /\ \/ LET final_answer == Synthesize(chat.synth_input)
        IN chat' = [chat EXCEPT !.stage = "Done",
                                !.answer = final_answer,
                                !.response = OkResponse(ChatBody(chat, final_answer))]
     \/ \E msg \in UpstreamErrors :
          chat' = ChainRaised(chat, Exception(<<msg>>))
  /\ UNCHANGED <<tables, full_chain, resp, engines, inflight>>

(***************************************************************************)
(* CRUD handlers: shared pieces.                                           *)
(***************************************************************************)
\* the last response of a CRUD / utility handler, with the request it answers
Resp(endpoint, request, db_up, response) ==
  [endpoint |-> endpoint, request |-> request, db_up |-> db_up,
   response |-> response]

NoResp == Resp("-", NoValue, TRUE, NoValue)

\* agent.py handlers: except Exception as e: raise HTTPException(500, str(e))
\* (HTTPException is an Exception, so the handler's own 4xx is caught too)
AgentExcept(e) == HTTPException(500, Str(e))

\* (mutant of RouterExcept: the first except clause is missing, the
\* handler's own HTTPException is wrapped like any other exception)
RouterExcept_CatchesAll(e) ==
  HTTPException(500, <<"Database error: ">> \o Str(e))

\* Routers/Users.py handlers: except HTTPException: raise
\*                            except Exception as e: raise HTTPException(500, "Database error: ...")
RouterExcept(e) ==
  IF e.type = "HTTPException"
    THEN e
    ELSE HTTPException(500, <<"Database error: ">> \o Str(e))

\* (mutant of UpdatePermissionColumns: a flag the body does not name keeps
\* its value)
UpdatePermissionColumns_KeepsAbsent(U, user_id, permissions) ==
  IF user_id \in DOMAIN U
    THEN [U EXCEPT ![user_id] =
            [col \in DOMAIN U[user_id] |->
               IF col \in PermFlags
                 THEN Get(permissions, col, U[user_id][col])
                 ELSE U[user_id][col]]]
    ELSE U

\* UPDATE Users SET perm_* = permissions.get(perm_*, True) WHERE user_id = :user_id
UpdatePermissionColumns(U, user_id, permissions) ==
  IF user_id \in DOMAIN U
    THEN [U EXCEPT ![user_id] =
            [col \in DOMAIN U[user_id] |->
               IF col \in PermFlags
                 THEN Get(permissions, col, TRUE)
                 ELSE U[user_id][col]]]
    ELSE U

\* request bodies of the dict-typed update-permissions endpoints
PermissionBodies ==
  {AllFlags(TRUE), AllFlags(FALSE), [perm_assets |-> FALSE], EmptyDict}

\* POST /api/v1/users/update-permissions (agent.py)
update_ai_permissions(user_id, permissions, db_up) ==
  LET request == [user_id |-> user_id, permissions |-> permissions]
      eng == get_engine(db_up)
  IN /\ IF eng.raised
          THEN /\ resp' = Resp("agent.update_ai_permissions", request, db_up,
                               ErrorResponse(AgentExcept(eng.error)))
               /\ UNCHANGED Users
          ELSE /\ Users' = UpdatePermissionColumns(Users, user_id, permissions)
               /\ resp' = Resp("agent.update_ai_permissions", request, db_up,
                    IF UserExists(Users, user_id)
                      THEN OkResponse([message |-> "AI permissions updated successfully",
                                       status |-> "success"])
                      ELSE ErrorResponse(AgentExcept(
                             HTTPException(404, <<"User not found">>))))
     /\ engines' = create_engine(engines, "agent")
     /\ engines'.agent <= MaxEngines
     /\ UNCHANGED <<Transactions, Assets, Liabilities, Investments,
                    full_chain, chat, inflight>>

\* (mutant of reload_agent: the handle is cleared when init_agent raises)
reload_agent_ClearsFirst(api_key_set, db_up) ==
  LET r == init_agent(full_chain, api_key_set, db_up, engines.agent + 1)
  IN /\ full_chain' = IF r.raised THEN None ELSE r.full_chain
     /\ engines' = IF api_key_set THEN create_engine(engines, "agent")
                                  ELSE engines
     /\ engines'.agent <= MaxEngines
     /\ resp' = Resp("agent.reload_agent", NoValue, db_up,
          IF r.raised
            THEN ErrorResponse(HTTPException(500, <<"Failed to reload agent">>))
            ELSE OkResponse([status |-> "Agent reloaded successfully."]))
     /\ UNCHANGED <<tables, chat, inflight>>

\* POST /reload-agent (agent.py): init_agent() reaches get_engine() only
\* past the API-key check
reload_agent(api_key_set, db_up) ==
  LET r == init_agent(full_chain, api_key_set, db_up, engines.agent + 1)
  IN /\ full_chain' = r.full_chain
     /\ engines' = IF api_key_set THEN create_engine(engines, "agent")
                                  ELSE engines
     /\ engines'.agent <= MaxEngines
     /\ resp' = Resp("agent.reload_agent", NoValue, db_up,
          IF r.raised
            THEN ErrorResponse(HTTPException(500,
                   <<"Failed to reload agent: ">> \o Str(r.error)))
            ELSE OkResponse([status |-> "Agent reloaded successfully."]))
     /\ UNCHANGED <<tables, chat, inflight>>

(***************************************************************************)
(* Process start, handler connections and the ingestion run at rest.       *)
(***************************************************************************)
\* engines built while the modules are imported: init_agent() runs once per
\* process and reaches get_engine() / database.engine() only when the API
\* key is set (app/config.py stops the app process without it)
StartupEngines(api_key_set) ==
  [p \in Processes |-> IF api_key_set THEN 1 ELSE 0]

\* handler connections that can hold a transaction open at the same time
Slots == {"c1", "c2"}

\* a connection with no request on it
IdleConn ==
  [handler |-> "-", stage |-> "Idle", request |-> NoValue, deleted |-> <<>>]

\* data_ingestion.py not started
IdleIngest ==
  [status |-> "idle", runs |-> 0, data |-> <<>>, pc |-> 0, view |-> NoValue]

(***************************************************************************)
(* Initial states: the store empty (schema just created) or seeded by      *)
(* data_ingestion.py; full_chain as the import-time try/except left it.    *)
(***************************************************************************)
NoRows == [u \in UserIds |-> <<>>]

SeedUsers ==
  "user_001" :> UserRow("user_001", "Asha Rao", 750, 1000, AllFlags(TRUE))

SeedRows(amount) == [u \in UserIds |-> IF u = "user_001" THEN <<amount>> ELSE <<>>]

Init ==
  /\ \/ /\ Users = <<>>
        /\ Transactions = NoRows
        /\ Assets = NoRows
        /\ Liabilities = NoRows
        /\ Investments = NoRows
     \/ /\ Users = SeedUsers
        /\ Transactions = SeedRows(-50)
        /\ Assets = SeedRows(10000)
        /\ Liabilities = SeedRows(4000)
        /\ Investments = SeedRows(500)
  /\ \E k, d \in BOOLEAN :
       /\ full_chain = StartupChain(k, d)
       /\ engines = StartupEngines(k)
  /\ chat = IdleChat
  /\ resp = NoResp
  /\ conns = [s \in Slots |-> IdleConn]
  /\ ingest = IdleIngest
  /\ sql = <<>>

(***************************************************************************)
(* SpecChat: the natural-language pipeline with the handlers that change   *)
(* what it reads (permissions) and the handle it runs (reload).            *)
(***************************************************************************)
NextChat ==
  \/ \E u \in UserIds, q \in Questions : ChatStart(u, q)
  \/ ChatInvoke
  \/ ReformulateReturns
  \/ SqlAgentReturns
  \/ SynthesizeReturns
  \/ \E u \in UserIds, p \in PermissionBodies, d \in BOOLEAN :
       update_ai_permissions(u, p, d)
  \/ \E k, d \in BOOLEAN : reload_agent(k, d)

SpecChat == Init /\ [][NextChat]_vars

(***************************************************************************)
(* User CRUD handlers of agent.py and Routers/Users.py.                    *)
(***************************************************************************)
\* the outcome of a handler's try body: an exception raised or a body returned
Raise(e) == [raised |-> TRUE, error |-> e, body |-> NoValue]

Return(body) == [raised |-> FALSE, error |-> NoValue, body |-> body]

\* what leaves an agent.py handler (every exception goes through AgentExcept)
AgentResponse(r) ==
  IF r.raised THEN ErrorResponse(AgentExcept(r.error)) ELSE OkResponse(r.body)

\* what leaves a Routers/Users.py handler
RouterResponse(r) ==
  IF r.raised THEN ErrorResponse(RouterExcept(r.error)) ELSE OkResponse(r.body)

\* user_data.get("credit_score", 0) in agent.py
DefaultCreditScoreAgent == 0

\* user_data.get("credit_score", 750) in Routers/Users.py
DefaultCreditScoreRouter == 750

\* user_data.get("epf_balance", 0.0)
DefaultEpfBalance == 0

\* int(user_result[0]) if user_result else 750 in get_dashboard_summary
SummaryDefaultCreditScore == 750

\* request bodies of create-user
CreateBodies ==
  {[user_id |-> u, name |-> "New User"] : u \in UserIds}
  \cup {[user_id |-> u, name |-> "New User", perm_assets |-> FALSE] : u \in UserIds}
  \cup {[user_id |-> u] : u \in UserIds}
  \cup {[name |-> "New User"], EmptyDict}

\* for field in ["user_id", "name"]: if field not in user_data
MissingField(user_data) ==
  IF "user_id" \notin DOMAIN user_data THEN "user_id"
  ELSE IF "name" \notin DOMAIN user_data THEN "name"
  ELSE ""

\* the row the INSERT of create_user writes
NewUserRow(user_data, default_credit_score) ==
  UserRow(user_data.user_id, user_data.name,
          Get(user_data, "credit_score", default_credit_score),
          Get(user_data, "epf_balance", DefaultEpfBalance),
          [f \in PermFlags |-> Get(user_data, f, TRUE)])

\* the try body of create_user: [raised, error, body, Users]
CreateUserTry(U, user_data, db_up, default_credit_score) ==
  IF MissingField(user_data) # ""
    THEN [r |-> Raise(HTTPException(400,
                   <<"Missing required field: ", MissingField(user_data)>>)),
          Users |-> U]
  ELSE IF get_engine(db_up).raised
    THEN [r |-> Raise(get_engine(db_up).error), Users |-> U]
  ELSE IF UserExists(U, user_data.user_id)
    THEN [r |-> Raise(HTTPException(409, <<"User already exists">>)),
          Users |-> U]
  ELSE [r |-> Return([message |-> "User created successfully",
                      status |-> "success",
                      user_id |-> user_data.user_id]),
        Users |-> U @@ (user_data.user_id :>
                          NewUserRow(user_data, default_credit_score))]

\* POST /api/v1/users/create (agent.py)
create_user_agent(user_data, db_up) ==
  LET t == CreateUserTry(Users, user_data, db_up, DefaultCreditScoreAgent)
  IN /\ Users' = t.Users
     /\ resp' = Resp("agent.create_user", user_data, db_up, AgentResponse(t.r))
     /\ engines' = IF MissingField(user_data) = ""
                     THEN create_engine(engines, "agent") ELSE engines
     /\ engines'.agent <= MaxEngines
     /\ UNCHANGED <<Transactions, Assets, Liabilities, Investments,
                    full_chain, chat, inflight>>

\* POST /create-user (Routers/Users.py)
create_user_router(user_data, db_up) ==
  LET t == CreateUserTry(Users, user_data, db_up, DefaultCreditScoreRouter)
  IN /\ Users' = t.Users
     /\ resp' = Resp("router.create_user", user_data, db_up, RouterResponse(t.r))
     /\ engines' = IF MissingField(user_data) = ""
                     THEN create_engine(engines, "agent") ELSE engines
     /\ engines'.agent <= MaxEngines
     /\ UNCHANGED <<Transactions, Assets, Liabilities, Investments,
                    full_chain, chat, inflight>>

\* f"{name.lower().replace(' ', '.')}@financio.com"
Email(name) == [kind |-> "email", of |-> name]

\* "".join(part[0].upper() for part in name.split()[:2]) or "U"
Initials(name) == [kind |-> "initials", of |-> name]

Permissions(row) == [f \in PermFlags |-> row[f]]

\* the NULL a column holds after being SET to request.get(key) = None
SqlNull == -1

\* float(None) / int(None): a NULL column is read back as None
TypeError(fn) ==
  Exception(<<fn, "() argument must be a string or a real number, not 'NoneType'">>)

\* try body of GET /api/v1/users/me (agent.py): SELECT the row, 404 when
\* there is none
GetCurrentUserTry(U, user_id, db_up) ==
  IF get_engine(db_up).raised THEN Raise(get_engine(db_up).error)
  ELSE IF ~UserExists(U, user_id)
    THEN Raise(HTTPException(404, <<"User not found">>))
  ELSE Return([user_id |-> U[user_id].user_id, name |-> U[user_id].name,
               email |-> Email(U[user_id].name),
               credit_score |-> U[user_id].credit_score,
               epf_balance |-> U[user_id].epf_balance,
               permissions |-> Permissions(U[user_id])])

\* try body of GET /me (Routers/Users.py): as in agent.py, but epf_balance
\* goes through float()
GetCurrentUserRouterTry(U, user_id, db_up) ==
  IF GetCurrentUserTry(U, user_id, db_up).raised
    THEN GetCurrentUserTry(U, user_id, db_up)
  ELSE IF U[user_id].epf_balance = SqlNull THEN Raise(TypeError("float"))
  ELSE GetCurrentUserTry(U, user_id, db_up)

\* try body of GET /profile-summary (Routers/Users.py)
GetProfileSummaryTry(U, user_id, db_up) ==
  IF get_engine(db_up).raised THEN Raise(get_engine(db_up).error)
  ELSE IF ~UserExists(U, user_id)
    THEN Raise(HTTPException(404, <<"User not found">>))
  ELSE Return([name |-> U[user_id].name,
               credit_score |-> U[user_id].credit_score,
               initials |-> Initials(U[user_id].name)])

\* try body of GET /api/v1/users/profile-summary (agent.py): also an email
GetProfileSummaryAgentTry(U, user_id, db_up) ==
  IF get_engine(db_up).raised THEN Raise(get_engine(db_up).error)
  ELSE IF ~UserExists(U, user_id)
    THEN Raise(HTTPException(404, <<"User not found">>))
  ELSE Return([name |-> U[user_id].name,
               credit_score |-> U[user_id].credit_score,
               initials |-> Initials(U[user_id].name),
               email |-> Email(U[user_id].name)])

RECURSIVE Sum(_)
\* COALESCE(SUM(column), 0) over the rows of one user
Sum(rows) == IF rows = <<>> THEN 0 ELSE Head(rows) + Sum(Tail(rows))

\* try body of GET /api/v1/dashboard/summary (agent.py): no 404 branch, the
\* missing row is replaced by defaults
GetDashboardSummaryTry(U, A, L, I, user_id, db_up) ==
  IF get_engine(db_up).raised THEN Raise(get_engine(db_up).error)
  ELSE IF UserExists(U, user_id) /\ U[user_id].epf_balance = SqlNull
    THEN Raise(TypeError("float"))
  ELSE IF UserExists(U, user_id) /\ U[user_id].credit_score = SqlNull
    THEN Raise(TypeError("int"))
  ELSE Return([total_assets |-> Sum(A[user_id]),
               total_liabilities |-> Sum(L[user_id]),
               epf_balance |-> IF UserExists(U, user_id)
                                 THEN U[user_id].epf_balance ELSE 0,
               credit_score |-> IF UserExists(U, user_id)
                                  THEN U[user_id].credit_score
                                  ELSE SummaryDefaultCreditScore,
               investment_portfolio |-> Sum(I[user_id])])

\* try body of GET /api/v1/dashboard (agent.py); the returned dict holds
\* float(user_info[2])
GetDashboardOverviewTry(U, T, A, L, I, user_id, db_up) ==
  IF get_engine(db_up).raised THEN Raise(get_engine(db_up).error)
  ELSE IF ~UserExists(U, user_id)
    THEN Raise(HTTPException(404, <<"User not found">>))
  ELSE IF U[user_id].epf_balance = SqlNull THEN Raise(TypeError("float"))
  ELSE Return(
    [user_info |-> [name |-> U[user_id].name,
                    credit_score |-> U[user_id].credit_score,
                    epf_balance |-> U[user_id].epf_balance],
     financial_summary |->
       [total_assets |-> Sum(A[user_id]),
        total_liabilities |-> Sum(L[user_id]),
        total_investments |-> Sum(I[user_id]),
        net_worth |-> Sum(A[user_id]) + Sum(I[user_id]) - Sum(L[user_id]),
        epf_balance |-> U[user_id].epf_balance],
     stats |->
       [transaction_count |-> Len(T[user_id]),
        asset_count |-> Len(A[user_id]),
        investment_count |-> Len(I[user_id]),
        liability_count |-> Len(L[user_id]),
        total_records |-> Len(T[user_id]) + Len(A[user_id])
                          + Len(I[user_id]) + Len(L[user_id])]])

\* GET /api/v1/users/me (agent.py)
get_current_user_agent(user_id, db_up) ==
  /\ resp' = Resp("agent.get_current_user", [user_id |-> user_id], db_up,
                  AgentResponse(GetCurrentUserTry(Users, user_id, db_up)))
  /\ engines' = create_engine(engines, "agent")
  /\ engines'.agent <= MaxEngines
  /\ UNCHANGED <<tables, full_chain, chat, inflight>>

\* GET /api/v1/users/profile-summary (agent.py)
get_profile_summary_agent(user_id, db_up) ==
  /\ resp' = Resp("agent.get_profile_summary", [user_id |-> user_id], db_up,
                  AgentResponse(GetProfileSummaryAgentTry(Users, user_id, db_up)))
  /\ engines' = create_engine(engines, "agent")
  /\ engines'.agent <= MaxEngines
  /\ UNCHANGED <<tables, full_chain, chat, inflight>>

\* GET /api/v1/dashboard (agent.py)
get_dashboard_overview(user_id, db_up) ==
  /\ resp' = Resp("agent.get_dashboard_overview", [user_id |-> user_id], db_up,
                  AgentResponse(GetDashboardOverviewTry(Users, Transactions,
                    Assets, Liabilities, Investments, user_id, db_up)))
  /\ engines' = create_engine(engines, "agent")
  /\ engines'.agent <= MaxEngines
  /\ UNCHANGED <<tables, full_chain, chat, inflight>>

\* GET /api/v1/dashboard/summary (agent.py)
get_dashboard_summary(user_id, db_up) ==
  /\ resp' = Resp("agent.get_dashboard_summary", [user_id |-> user_id], db_up,
                  AgentResponse(GetDashboardSummaryTry(Users, Assets,
                    Liabilities, Investments, user_id, db_up)))
  /\ engines' = create_engine(engines, "agent")
  /\ engines'.agent <= MaxEngines
  /\ UNCHANGED <<tables, full_chain, chat, inflight>>

\* GET /me (Routers/Users.py)
get_current_user_router(user_id, db_up) ==
  /\ resp' = Resp("router.get_current_user", [user_id |-> user_id], db_up,
                  RouterResponse(GetCurrentUserRouterTry(Users, user_id, db_up)))
  /\ engines' = create_engine(engines, "agent")
  /\ engines'.agent <= MaxEngines
  /\ UNCHANGED <<tables, full_chain, chat, inflight>>

\* GET /profile-summary (Routers/Users.py)
get_profile_summary_router(user_id, db_up) ==
  /\ resp' = Resp("router.get_profile_summary", [user_id |-> user_id], db_up,
                  RouterResponse(GetProfileSummaryTry(Users, user_id, db_up)))
  /\ engines' = create_engine(engines, "agent")
  /\ engines'.agent <= MaxEngines
  /\ UNCHANGED <<tables, full_chain, chat, inflight>>

\* request bodies of update-profile
ProfileBodies ==
  {[credit_score |-> 700, epf_balance |-> 500], [credit_score |-> 0],
   [epf_balance |-> 0], [credit_score |-> 700], EmptyDict}

\* not request.get(key): an absent key gives None, and None, 0 and 0.0
\* are all falsy
Falsy(request, key) == key \notin DOMAIN request \/ request[key] = 0

\* (mutant of UpdateProfileColumns: a column the body does not name keeps
\* its value)
UpdateProfileColumns_KeepsAbsent(U, user_id, request) ==
  IF user_id \in DOMAIN U
    THEN [U EXCEPT ![user_id].credit_score =
                     Get(request, "credit_score", U[user_id].credit_score),
                   ![user_id].epf_balance =
                     Get(request, "epf_balance", U[user_id].epf_balance)]
    ELSE U

\* UPDATE Users SET credit_score = :credit_score, epf_balance = :epf_balance
\* WHERE user_id = :user_id, bound to request.get(...) of both keys
UpdateProfileColumns(U, user_id, request) ==
  IF user_id \in DOMAIN U
    THEN [U EXCEPT ![user_id].credit_score = Get(request, "credit_score", SqlNull),
                   ![user_id].epf_balance = Get(request, "epf_balance", SqlNull)]
    ELSE U

\* POST /update-profile (Routers/Users.py)
update_user_profile_router(request, user_id, db_up) ==
  LET eng == get_engine(db_up)
      rejected == Falsy(request, "credit_score") /\ Falsy(request, "epf_balance")
      r == IF rejected
             THEN Raise(HTTPException(400,
                    <<"At least one field (credit_score or epf_balance) is required">>))
           ELSE IF eng.raised THEN Raise(eng.error)
           ELSE IF ~UserExists(Users, user_id)
             THEN Raise(HTTPException(404, <<"User not found">>))
           ELSE Return([message |-> "Profile updated successfully",
                        status |-> "success",
                        updated_fields |->
                          [credit_score |-> Get(request, "credit_score", SqlNull),
                           epf_balance |-> Get(request, "epf_balance", SqlNull)]])
  IN /\ Users' = IF r.raised THEN Users
                            ELSE UpdateProfileColumns(Users, user_id, request)
     /\ resp' = Resp("router.update_user_profile",
                     [user_id |-> user_id, body |-> request], db_up,
                     RouterResponse(r))
     /\ engines' = IF rejected THEN engines ELSE create_engine(engines, "agent")
     /\ engines'.agent <= MaxEngines
     /\ UNCHANGED <<Transactions, Assets, Liabilities, Investments,
                    full_chain, chat, inflight>>

\* POST /api/v1/users/update-profile (agent.py): no check of the body; the
\* UPDATE is committed before rowcount is looked at
update_user_profile_agent(request, user_id, db_up) ==
  LET eng == get_engine(db_up)
      r == IF eng.raised THEN Raise(eng.error)
           ELSE IF RowCount(Users, user_id) = 0
             THEN Raise(HTTPException(404, <<"User not found">>))
           ELSE Return([message |-> "Profile updated successfully",
                        status |-> "success"])
  IN /\ Users' = IF eng.raised THEN Users
                              ELSE UpdateProfileColumns(Users, user_id, request)
     /\ resp' = Resp("agent.update_user_profile",
                     [user_id |-> user_id, body |-> request], db_up,
                     AgentResponse(r))
     /\ engines' = create_engine(engines, "agent")
     /\ engines'.agent <= MaxEngines
     /\ UNCHANGED <<Transactions, Assets, Liabilities, Investments,
                    full_chain, chat, inflight>>

\* POST /update-permissions (Routers/Users.py): the user is looked up
\* before the UPDATE
update_ai_permissions_router(permissions, user_id, db_up) ==
  LET eng == get_engine(db_up)
      r == IF eng.raised THEN Raise(eng.error)
           ELSE IF ~UserExists(Users, user_id)
             THEN Raise(HTTPException(404, <<"User not found">>))
           ELSE Return([message |-> "AI permissions updated successfully",
                        status |-> "success",
                        updated_permissions |-> permissions])
  IN /\ Users' = IF r.raised THEN Users
                            ELSE UpdatePermissionColumns(Users, user_id, permissions)
     /\ resp' = Resp("router.update_ai_permissions",
                     [user_id |-> user_id, permissions |-> permissions], db_up,
                     RouterResponse(r))
     /\ engines' = create_engine(engines, "agent")
     /\ engines'.agent <= MaxEngines
     /\ UNCHANGED <<Transactions, Assets, Liabilities, Investments,
                    full_chain, chat, inflight>>

\* DELETE FROM <table> WHERE user_id = :user_id
DeleteRows(rows, user_id) == [rows EXCEPT ![user_id] = <<>>]

\* DELETE /delete-account (Routers/Users.py) with no other request in
\* between: the four child tables, then the Users row, one commit
delete_user_account_router(user_id, db_up) ==
  LET eng == get_engine(db_up)
      r == IF eng.raised THEN Raise(eng.error)
           ELSE IF ~UserExists(Users, user_id)
             THEN Raise(HTTPException(404, <<"User not found">>))
           ELSE Return([message |-> "User account deleted successfully",
                        status |-> "success"])
  IN /\ IF r.raised
          THEN UNCHANGED tables
          ELSE /\ Transactions' = DeleteRows(Transactions, user_id)
               /\ Assets' = DeleteRows(Assets, user_id)
               /\ Liabilities' = DeleteRows(Liabilities, user_id)
               /\ Investments' = DeleteRows(Investments, user_id)
               /\ Users' = [u \in DOMAIN Users \ {user_id} |-> Users[u]]
     /\ resp' = Resp("router.delete_user_account", [user_id |-> user_id],
                     db_up, RouterResponse(r))
     /\ engines' = create_engine(engines, "agent")
     /\ engines'.agent <= MaxEngines
     /\ UNCHANGED <<full_chain, chat, inflight>>

\* `if not agent_executor` in agent.py: the module defines full_chain and,
\* inside init_agent, the local sql_agent_executor, but no agent_executor
NameError == Exception(<<"name 'agent_executor' is not defined">>)

\* POST /ask (agent.py): the first statement raises NameError, outside the
\* try; the 503 branch and the agent call are never reached
ask_agent(user_id, question) ==
  /\ resp' = Resp("agent.ask_agent",
                  [user_id |-> user_id, question |-> question], TRUE,
                  UnhandledResponse(NameError))
  /\ UNCHANGED <<tables, full_chain, chat, engines, inflight>>

(***************************************************************************)
(* SpecCrud: the user CRUD and utility handlers over the store.            *)
(***************************************************************************)
NextCrud ==
  \/ \E b \in CreateBodies, d \in BOOLEAN : create_user_agent(b, d)
  \/ \E b \in CreateBodies, d \in BOOLEAN : create_user_router(b, d)
  \/ \E u \in UserIds, d \in BOOLEAN : get_current_user_agent(u, d)
  \/ \E u \in UserIds, d \in BOOLEAN : get_profile_summary_agent(u, d)
  \/ \E u \in UserIds, d \in BOOLEAN : get_dashboard_overview(u, d)
  \/ \E u \in UserIds, d \in BOOLEAN : get_dashboard_summary(u, d)
  \/ \E u \in UserIds, d \in BOOLEAN : get_current_user_router(u, d)
  \/ \E u \in UserIds, d \in BOOLEAN : get_profile_summary_router(u, d)
  \/ \E b \in ProfileBodies, u \in UserIds, d \in BOOLEAN :
       update_user_profile_router(b, u, d)
  \/ \E b \in ProfileBodies, u \in UserIds, d \in BOOLEAN :
       update_user_profile_agent(b, u, d)
  \/ \E u \in UserIds, q \in Questions : ask_agent(u, q)
  \/ \E p \in PermissionBodies, u \in UserIds, d \in BOOLEAN :
       update_ai_permissions_router(p, u, d)
  \/ \E u \in UserIds, d \in BOOLEAN : delete_user_account_router(u, d)

SpecCrud == Init /\ [][NextCrud]_vars

(***************************************************************************)
(* Permission endpoints of agent1.py and app/main.py                       *)
(* (GET / PUT /api/v1/user/{user_id}/permissions).                         *)
(***************************************************************************)
\* PermissionsUpdateRequest bodies: all six booleans are required
PermissionSets ==
  {AllFlags(TRUE), AllFlags(FALSE),
   [AllFlags(TRUE) EXCEPT !["perm_assets"] = FALSE],
   [AllFlags(FALSE) EXCEPT !["perm_epf_balance"] = TRUE]}

\* (mutant of UpdateUsersPermissions: the statement leaves perm_epf_balance
\* as it was)
UpdateUsersPermissions_DropsEpf(U, user_id, permissions) ==
  IF user_id \in DOMAIN U
    THEN [U EXCEPT ![user_id] =
            [col \in DOMAIN U[user_id] |->
               IF col \in PermFlags \ {"perm_epf_balance"}
                 THEN permissions[col]
                 ELSE U[user_id][col]]]
    ELSE U

\* UPDATE Users SET perm_assets = :perm_assets, ..., perm_epf_balance =
\* :perm_epf_balance WHERE user_id = :user_id, bound to permissions.dict()
UpdateUsersPermissions(U, user_id, permissions) ==
  IF user_id \in DOMAIN U
    THEN [U EXCEPT ![user_id] =
            [col \in DOMAIN U[user_id] |->
               IF col \in PermFlags
                 THEN permissions[col]
                 ELSE U[user_id][col]]]
    ELSE U

\* except Exception as e: transaction.rollback();
\*   raise HTTPException(500, f"Failed to update permissions: {e}")
UpdatePermissionsExcept(e) ==
  HTTPException(500, <<"Failed to update permissions: ">> \o Str(e))

\* PUT /api/v1/user/{user_id}/permissions (agent1.py): get_engine() is
\* called outside the try; inside it the 404 of rowcount == 0 is caught
\* by except Exception, rolled back and re-raised as 500
update_permissions_agent1(user_id, permissions, db_up) ==
  LET request == [user_id |-> user_id, permissions |-> permissions]
      eng == get_engine(db_up)
      found == RowCount(Users, user_id) # 0
  IN /\ engines' = create_engine(engines, "agent1")
     /\ engines'.agent1 <= MaxEngines
     /\ Users' = IF ~eng.raised /\ found
                   THEN UpdateUsersPermissions(Users, user_id, permissions)
                   ELSE Users
     /\ resp' = Resp("agent1.update_permissions", request, db_up,
          IF eng.raised THEN UnhandledResponse(eng.error)
          ELSE IF ~found
            THEN ErrorResponse(UpdatePermissionsExcept(
                   HTTPException(404, <<"User not found to update.">>)))
          ELSE OkResponse([status |-> "success",
                           message |-> "Permissions updated."]))
     /\ UNCHANGED <<Transactions, Assets, Liabilities, Investments,
                    full_chain, chat, inflight>>

\* GET /api/v1/user/{user_id}/permissions (agent1.py): no try at all, the
\* 404 leaves the handler as raised
get_permissions(user_id, db_up) ==
  LET eng == get_engine(db_up)
  IN /\ engines' = create_engine(engines, "agent1")
     /\ engines'.agent1 <= MaxEngines
     /\ resp' = Resp("agent1.get_permissions", [user_id |-> user_id], db_up,
          IF eng.raised THEN UnhandledResponse(eng.error)
          ELSE IF ~UserExists(Users, user_id)
            THEN ErrorResponse(HTTPException(404, <<"User not found">>))
          ELSE OkResponse(Permissions(Users[user_id])))
     /\ UNCHANGED <<tables, full_chain, chat, inflight>>

\* database.engine.connect() in app/main.py: database.engine is the
\* function engine(), which has no attribute connect
AttributeError ==
  Exception(<<"'function' object has no attribute 'connect'">>)

\* PUT /api/v1/user/{user_id}/permissions (app/main.py): the with statement
\* raises AttributeError before the try is entered; no statement is run
update_permissions_main(user_id, permissions, db_up) ==
  /\ resp' = Resp("main.update_permissions",
                  [user_id |-> user_id, permissions |-> permissions], db_up,
                  UnhandledResponse(AttributeError))
  /\ UNCHANGED <<tables, full_chain, chat, engines, inflight>>

\* GET /ping-db (app/main.py): the AttributeError is raised inside the
\* try, before any statement reaches the database
ping_db_main(db_up) ==
  /\ resp' = Resp("main.ping_db", NoValue, db_up,
                  ErrorResponse(HTTPException(500,
                    <<"Database connection failed: ">> \o Str(AttributeError))))
  /\ UNCHANGED <<tables, full_chain, chat, engines, inflight>>

\* GET /api/v1/users/me (app/main.py): no try; the AttributeError leaves
\* the handler
get_current_user_main(user_id, db_up) ==
  /\ resp' = Resp("main.get_current_user", [user_id |-> user_id], db_up,
                  UnhandledResponse(AttributeError))
  /\ UNCHANGED <<tables, full_chain, chat, engines, inflight>>

(***************************************************************************)
(* SpecSettings: the permission endpoints of agent1.py and the handlers of *)
(* app/main.py, with the dict-typed permission update of agent.py over the *)
(* same rows.                                                              *)
(***************************************************************************)
NextSettings ==
  \/ \E u \in UserIds, p \in PermissionSets, d \in BOOLEAN :
       update_permissions_agent1(u, p, d)
  \/ \E u \in UserIds, d \in BOOLEAN : get_permissions(u, d)
  \/ \E u \in UserIds, p \in PermissionSets, d \in BOOLEAN :
       update_permissions_main(u, p, d)
  \/ \E u \in UserIds, p \in PermissionBodies, d \in BOOLEAN :
       update_ai_permissions(u, p, d)
  \/ \E u \in UserIds, p \in PermissionBodies, d \in BOOLEAN :
       update_ai_permissions_router(p, u, d)
  \/ \E d \in BOOLEAN : ping_db_main(d)
  \/ \E u \in UserIds, d \in BOOLEAN : get_current_user_main(u, d)

SpecSettings == Init /\ [][NextSettings]_vars

(***************************************************************************)
(* Record and account handlers of agent.py and Routers/Users.py, one       *)
(* database statement at a time.  A handler connection sees the committed  *)
(* rows; what it deletes stays invisible to the others until its commit,   *)
(* and leaving the connection without commit rolls it back.                *)
(***************************************************************************)
\* messages of the errors a statement or commit can fail with
DbErrors == {"server closed the connection unexpectedly"}

\* (mutant of ForeignKeyHolds: the child tables carry no foreign key)
ForeignKeyHolds_NotEnforced(U, user_id) == TRUE

\* ForeignKey('users.user_id') on the user_id of assets, liabilities,
\* investments and transactions: a child row needs its Users row
ForeignKeyHolds(U, user_id) == UserExists(U, user_id)

\* the error of a statement that breaks a foreign-key or primary-key
\* constraint
IntegrityError(constraint) == Exception(<<"IntegrityError: ", constraint>>)

\* record["key"] on a dict-typed body without that key
KeyError(key) == Exception(<<"KeyError: ", key>>)

\* bodies of the add-record requests: with and without the amount key
RecordBodies(key) == {(key :> 100), EmptyDict}

\* try body of an add-record handler: INSERT INTO <table> ... ; commit.
\* rows are the table's rows of user_id; [r, rows]
AddRecordTry(U, rows, record, key, user_id, db_up) ==
  IF get_engine(db_up).raised
    THEN [r |-> Raise(get_engine(db_up).error), rows |-> rows]
  ELSE IF key \notin DOMAIN record
    THEN [r |-> Raise(KeyError(key)), rows |-> rows]
  ELSE IF ~ForeignKeyHolds(U, user_id)
    THEN [r |-> Raise(IntegrityError("foreign key user_id")), rows |-> rows]
  ELSE [r |-> Return([status |-> "success"]),
        rows |-> Append(rows, record[key])]

\* POST /api/v1/transactions (agent.py)
add_transaction(transaction, user_id, db_up) ==
  LET t == AddRecordTry(Users, Transactions[user_id], transaction, "amount",
                        user_id, db_up)
  IN /\ Transactions' = [Transactions EXCEPT ![user_id] = t.rows]
     /\ resp' = Resp("agent.add_transaction",
                     [user_id |-> user_id, record |-> transaction], db_up,
                     AgentResponse(t.r))
     /\ engines' = create_engine(engines, "agent")
     /\ engines'.agent <= MaxEngines
     /\ UNCHANGED <<Users, Assets, Liabilities, Investments,
                    full_chain, chat, inflight>>

\* POST /api/v1/assets (agent.py)
add_asset(asset, user_id, db_up) ==
  LET t == AddRecordTry(Users, Assets[user_id], asset, "value",
                        user_id, db_up)
  IN /\ Assets' = [Assets EXCEPT ![user_id] = t.rows]
     /\ resp' = Resp("agent.add_asset",
                     [user_id |-> user_id, record |-> asset], db_up,
                     AgentResponse(t.r))
     /\ engines' = create_engine(engines, "agent")
     /\ engines'.agent <= MaxEngines
     /\ UNCHANGED <<Users, Transactions, Liabilities, Investments,
                    full_chain, chat, inflight>>

\* POST /api/v1/investments (agent.py)
add_investment(investment, user_id, db_up) ==
  LET t == AddRecordTry(Users, Investments[user_id], investment,
                        "current_value", user_id, db_up)
  IN /\ Investments' = [Investments EXCEPT ![user_id] = t.rows]
     /\ resp' = Resp("agent.add_investment",
                     [user_id |-> user_id, record |-> investment], db_up,
                     AgentResponse(t.r))
     /\ engines' = create_engine(engines, "agent")
     /\ engines'.agent <= MaxEngines
     /\ UNCHANGED <<Users, Transactions, Assets, Liabilities,
                    full_chain, chat, inflight>>

\* POST /api/v1/liabilities (agent.py)
add_liability(liability, user_id, db_up) ==
  LET t == AddRecordTry(Users, Liabilities[user_id], liability,
                        "outstanding_balance", user_id, db_up)
  IN /\ Liabilities' = [Liabilities EXCEPT ![user_id] = t.rows]
     /\ resp' = Resp("agent.add_liability",
                     [user_id |-> user_id, record |-> liability], db_up,
                     AgentResponse(t.r))
     /\ engines' = create_engine(engines, "agent")
     /\ engines'.agent <= MaxEngines
     /\ UNCHANGED <<Users, Transactions, Assets, Investments,
                    full_chain, chat, inflight>>

CreateHandlers == {"agent.create_user", "router.create_user"}

DeleteHandlers == {"agent.delete_user_account", "router.delete_user_account"}

\* the except clauses of the handler's file
HandlerExcept(handler, e) ==
  IF handler \in {"agent.create_user", "agent.delete_user_account"}
    THEN AgentExcept(e)
    ELSE RouterExcept(e)

\* with engine.connect() as conn: the pool hands out its first free
\* connection
Acquire(s) ==
  /\ conns[s].stage = "Idle"
  /\ \A o \in Slots : conns[o].stage = "Idle" => (s = "c1" \/ o # "c1")

\* request bodies of the statement-by-statement create-user
StepCreateBodies ==
  {[user_id |-> u, name |-> "New User"] : u \in UserIds}
  \cup {[name |-> "New User"]}

\* create-user up to the existence check: the required fields, get_engine(),
\* SELECT user_id FROM Users WHERE user_id = :user_id.  An exception leaves
\* the with-block, which closes the connection.
create_user_begin(s, handler, user_data, db_up) ==
  LET eng == get_engine(db_up)
      raised ==
        IF MissingField(user_data) # ""
          THEN Raise(HTTPException(400, <<"Missing required field: ",
                                         MissingField(user_data)>>))
        ELSE IF eng.raised THEN Raise(eng.error)
        ELSE IF UserExists(Users, user_data.user_id)
          THEN Raise(HTTPException(409, <<"User already exists">>))
        ELSE Return(NoValue)
  IN /\ Acquire(s)
     /\ engines' = IF MissingField(user_data) = ""
                     THEN create_engine(engines, "agent") ELSE engines
     /\ engines'.agent <= MaxEngines
     /\ IF raised.raised
          THEN /\ resp' = Resp(handler, user_data, db_up,
                     ErrorResponse(HandlerExcept(handler, raised.error)))
               /\ UNCHANGED conns
          ELSE /\ conns' = [conns EXCEPT ![s] =
                     [IdleConn EXCEPT !.handler = handler,
                                      !.request = user_data,
                                      !.stage = "Inserting"]]
               /\ UNCHANGED resp
     /\ UNCHANGED <<tables, full_chain, chat, ingest, sql>>

\* INSERT INTO Users ...; conn.commit(); return.  user_id is the primary
\* key, so the INSERT fails when a row with it has been committed since
\* the SELECT; the statement or the commit may also fail on its own.
create_user_insert(s) ==
  LET c == conns[s]
      default_credit_score ==
        IF c.handler = "agent.create_user" THEN DefaultCreditScoreAgent
                                           ELSE DefaultCreditScoreRouter
  IN /\ c.stage = "Inserting"
     /\ \/ /\ ~UserExists(Users, c.request.user_id)
           /\ Users' = Users @@ (c.request.user_id :>
                          NewUserRow(c.request, default_credit_score))
           /\ resp' = Resp(c.handler, c.request, TRUE,
                  OkResponse([message |-> "User created successfully",
                              status |-> "success",
                              user_id |-> c.request.user_id]))
        \/ /\ UserExists(Users, c.request.user_id)
           /\ UNCHANGED Users
           /\ resp' = Resp(c.handler, c.request, TRUE,
                  ErrorResponse(HandlerExcept(c.handler,
                    IntegrityError("primary key user_id"))))
        \/ /\ UNCHANGED Users
           /\ \E msg \in DbErrors :
                resp' = Resp(c.handler, c.request, TRUE,
                  ErrorResponse(HandlerExcept(c.handler, Exception(<<msg>>))))
     /\ conns' = [conns EXCEPT ![s] = IdleConn]
     /\ UNCHANGED <<Transactions, Assets, Liabilities, Investments,
                    full_chain, chat, engines, ingest, sql>>

\* tables = ["Transactions", "Assets", "Liabilities", "Investments"]
ChildTables == <<"Transactions", "Assets", "Liabilities", "Investments">>

\* the committed rows of user_id in the k-th child table
ChildRows(k, user_id) ==
  CASE ChildTables[k] = "Transactions" -> Transactions[user_id]
    [] ChildTables[k] = "Assets"       -> Assets[user_id]
    [] ChildTables[k] = "Liabilities"  -> Liabilities[user_id]
    [] ChildTables[k] = "Investments"  -> Investments[user_id]

\* the rows left when the first n, deleted by the transaction, are gone
Remaining(rows, n) == SubSeq(rows, n + 1, Len(rows))

\* delete-account up to the existence check: get_engine(), SELECT user_id
\* (the model runs one delete of a user_id at a time)
delete_user_account_begin(s, handler, user_id, db_up) ==
  LET eng == get_engine(db_up)
      request == [user_id |-> user_id]
      raised ==
        IF eng.raised THEN Raise(eng.error)
        ELSE IF ~UserExists(Users, user_id)
          THEN Raise(HTTPException(404, <<"User not found">>))
        ELSE Return(NoValue)
  IN /\ Acquire(s)
     /\ \A o \in Slots : ~(conns[o].stage = "Deleting"
                            /\ conns[o].request.user_id = user_id)
     /\ engines' = create_engine(engines, "agent")
     /\ engines'.agent <= MaxEngines
     /\ IF raised.raised
          THEN /\ resp' = Resp(handler, request, db_up,
                     ErrorResponse(HandlerExcept(handler, raised.error)))
               /\ UNCHANGED conns
          ELSE /\ conns' = [conns EXCEPT ![s] =
                     [IdleConn EXCEPT !.handler = handler,
                                      !.request = request,
                                      !.stage = "Deleting"]]
               /\ UNCHANGED resp
     /\ UNCHANGED <<tables, full_chain, chat, ingest, sql>>

\* for table in tables: DELETE FROM {table} WHERE user_id = :user_id
\* (the rows committed so far are deleted in the transaction; a failing
\* statement leaves the with-block without commit)
delete_user_account_statement(s) ==
  LET c == conns[s]
      k == Len(c.deleted) + 1
  IN /\ c.stage = "Deleting"
     /\ k <= Len(ChildTables)
     /\ \/ /\ conns' = [conns EXCEPT ![s].deleted =
                  Append(c.deleted, Len(ChildRows(k, c.request.user_id)))]
           /\ UNCHANGED resp
        \/ /\ conns' = [conns EXCEPT ![s] = IdleConn]
           /\ \E msg \in DbErrors :
                resp' = Resp(c.handler, c.request, TRUE,
                  ErrorResponse(HandlerExcept(c.handler, Exception(<<msg>>))))
     /\ UNCHANGED <<tables, full_chain, chat, engines, ingest, sql>>

\* DELETE FROM Users WHERE user_id = :user_id; conn.commit(); return.  The
\* foreign keys reject the DELETE while a child row committed after the
\* transaction's own DELETE still references the user.
delete_user_account_commit(s) ==
  LET c == conns[s]
      u == c.request.user_id
      referenced == \E k \in 1..Len(ChildTables) :
                      Len(ChildRows(k, u)) > c.deleted[k]
  IN /\ c.stage = "Deleting"
     /\ Len(c.deleted) = Len(ChildTables)
     /\ \/ /\ ~referenced
           /\ Users' = [v \in DOMAIN Users \ {u} |-> Users[v]]
           /\ Transactions' = [Transactions EXCEPT ![u] = Remaining(@, c.deleted[1])]
           /\ Assets' = [Assets EXCEPT ![u] = Remaining(@, c.deleted[2])]
           /\ Liabilities' = [Liabilities EXCEPT ![u] = Remaining(@, c.deleted[3])]
           /\ Investments' = [Investments EXCEPT ![u] = Remaining(@, c.deleted[4])]
           /\ resp' = Resp(c.handler, c.request, TRUE,
                  OkResponse([message |-> "User account deleted successfully",
                              status |-> "success"]))
        \/ /\ referenced
           /\ UNCHANGED tables
           /\ resp' = Resp(c.handler, c.request, TRUE,
                  ErrorResponse(HandlerExcept(c.handler,
                    IntegrityError("foreign key user_id"))))
        \/ /\ UNCHANGED tables
           /\ \E msg \in DbErrors :
                resp' = Resp(c.handler, c.request, TRUE,
                  ErrorResponse(HandlerExcept(c.handler, Exception(<<msg>>))))
     /\ conns' = [conns EXCEPT ![s] = IdleConn]
     /\ UNCHANGED <<full_chain, chat, engines, ingest, sql>>

(***************************************************************************)
(* SpecRecords: create-user, the four add-record handlers and              *)
(* delete-account, interleaved statement by statement.                     *)
(***************************************************************************)
NextRecords ==
  \/ \E s \in Slots, h \in CreateHandlers, b \in StepCreateBodies, d \in BOOLEAN :
       create_user_begin(s, h, b, d)
  \/ \E s \in Slots : create_user_insert(s)
  \/ \E b \in RecordBodies("amount"), u \in UserIds, d \in BOOLEAN :
       add_transaction(b, u, d)
  \/ \E b \in RecordBodies("value"), u \in UserIds, d \in BOOLEAN :
       add_asset(b, u, d)
  \/ \E b \in RecordBodies("current_value"), u \in UserIds, d \in BOOLEAN :
       add_investment(b, u, d)
  \/ \E b \in RecordBodies("outstanding_balance"), u \in UserIds, d \in BOOLEAN :
       add_liability(b, u, d)
  \/ \E s \in Slots, h \in DeleteHandlers, u \in UserIds, d \in BOOLEAN :
       delete_user_account_begin(s, h, u, d)
  \/ \E s \in Slots : delete_user_account_statement(s)
  \/ \E s \in Slots : delete_user_account_commit(s)

SpecRecords == Init /\ [][NextRecords]_vars

(***************************************************************************)
(* data_ingestion.py: insert_data() over the users of data.json, one       *)
(* statement at a time inside one transaction.                             *)
(***************************************************************************)
\* one element of data.json
UserData(user_id, transactions, assets, liabilities, investments) ==
  [user_id |-> user_id, name |-> "Imported User", credit_score |-> 700,
   epf_balance |-> 500, transactions |-> transactions, assets |-> assets,
   liabilities |-> liabilities, investments |-> investments]

\* contents of data.json: two users, one user without some of the lists,
\* the same user twice
DataSets ==
  {<<UserData("user_002", <<-20>>, <<300>>, <<>>, <<>>),
     UserData("user_001", <<>>, <<>>, <<40>>, <<7>>)>>,
   <<[user_id |-> "user_001", name |-> "Imported User",
      transactions |-> <<-20, 15>>]>>,
   <<UserData("user_002", <<>>, <<300>>, <<>>, <<>>),
     UserData("user_002", <<>>, <<>>, <<40>>, <<>>)>>}

\* if key in user and user[key]: for item in user[key]: conn.execute(...)
Inserts(table, key, user) ==
  [j \in 1..Len(Get(user, key, <<>>)) |->
     [table |-> table, user |-> user, value |-> Get(user, key, <<>>)[j]]]

\* the statements of one pass of `for user in data`, in the order of the
\* code: Users first, then Transactions, Assets, Liabilities, Investments
UserStatements(user) ==
  <<[table |-> "Users", user |-> user, value |-> 0]>>
  \o Inserts("Transactions", "transactions", user)
  \o Inserts("Assets", "assets", user)
  \o Inserts("Liabilities", "liabilities", user)
  \o Inserts("Investments", "investments", user)

RECURSIVE Statements(_)
\* the statements of the whole loop
Statements(data) ==
  IF data = <<>> THEN <<>>
  ELSE UserStatements(Head(data)) \o Statements(Tail(data))

\* the five tables as one record: what a connection sees
Store(U, T, A, L, I) ==
  [Users |-> U, Transactions |-> T, Assets |-> A, Liabilities |-> L,
   Investments |-> I]

\* INSERT INTO Users (user_id, name, credit_score, epf_balance): the
\* permission columns are left to the column default of the schema
IngestedUserRow(user) ==
  UserRow(user.user_id, user.name, Get(user, "credit_score", SqlNull),
          Get(user, "epf_balance", SqlNull), AllFlags(TRUE))

\* the connection's view after the statement has run
Execute(view, st) ==
  IF st.table = "Users"
    THEN [view EXCEPT !.Users = @ @@ (st.user.user_id :> IngestedUserRow(st.user))]
    ELSE [view EXCEPT ![st.table][st.user.user_id] = Append(@, st.value)]

\* the constraint a statement breaks in the connection's view, "" if none
Violation(view, st) ==
  IF st.table = "Users"
    THEN IF UserExists(view.Users, st.user.user_id)
           THEN "primary key user_id" ELSE ""
    ELSE IF ForeignKeyHolds(view.Users, st.user.user_id)
           THEN "" ELSE "foreign key user_id"

\* (mutant of AfterException: what was inserted before the failure is
\* committed)
AfterException_Commits(committed, view) == view

\* except Exception: transaction.rollback(); the with-block of conn.begin()
\* then ends without a transaction to commit
AfterException(committed, view) == committed

\* insert_data() up to the loop: get_engine(), engine.connect(),
\* conn.begin().  connect() is outside the try: an unreachable database
\* ends the script with the exception.
insert_data_begin(data, db_up) ==
  /\ ingest.status # "running"
  /\ ingest.runs < MaxRuns
  /\ ingest' = IF db_up
       THEN [status |-> "running", runs |-> ingest.runs + 1, data |-> data,
             pc |-> 0,
             view |-> Store(Users, Transactions, Assets, Liabilities, Investments)]
       ELSE [status |-> "crashed", runs |-> ingest.runs + 1, data |-> data,
             pc |-> 0, view |-> NoValue]
  /\ UNCHANGED <<tables, full_chain, chat, resp, engines, conns, sql>>

\* one conn.execute(...) of the loop: it runs, or it raises (a constraint,
\* or the database failing) and the except clause rolls back
insert_data_statement ==
  LET st == Statements(ingest.data)[ingest.pc + 1]
      committed == Store(Users, Transactions, Assets, Liabilities, Investments)
      after == AfterException(committed, ingest.view)
      failed == /\ ingest' = [ingest EXCEPT !.status = "rolled_back",
                                            !.view = NoValue]
                /\ Users' = after.Users
                /\ Transactions' = after.Transactions
                /\ Assets' = after.Assets
                /\ Liabilities' = after.Liabilities
                /\ Investments' = after.Investments
  IN /\ ingest.status = "running"
     /\ ingest.pc < Len(Statements(ingest.data))
     /\ \/ /\ Violation(ingest.view, st) = ""
           /\ ingest' = [ingest EXCEPT !.pc = @ + 1,
                                       !.view = Execute(ingest.view, st)]
           /\ UNCHANGED tables
        \/ /\ Violation(ingest.view, st) # ""
           /\ failed
        \/ /\ \E msg \in DbErrors : failed
     /\ UNCHANGED <<full_chain, chat, resp, engines, conns, sql>>

\* the loop is over: leaving `with conn.begin()` commits the transaction
\* (or the commit fails and nothing is stored)
insert_data_commit ==
  /\ ingest.status = "running"
  /\ ingest.pc = Len(Statements(ingest.data))
  /\ \/ /\ ingest' = [ingest EXCEPT !.status = "committed", !.view = NoValue]
        /\ Users' = ingest.view.Users
        /\ Transactions' = ingest.view.Transactions
        /\ Assets' = ingest.view.Assets
        /\ Liabilities' = ingest.view.Liabilities
        /\ Investments' = ingest.view.Investments
     \/ /\ ingest' = [ingest EXCEPT !.status = "crashed", !.view = NoValue]
        /\ UNCHANGED tables
  /\ UNCHANGED <<full_chain, chat, resp, engines, conns, sql>>

(***************************************************************************)
(* SpecIngest: runs of the ingestion script over an empty or seeded store. *)
(***************************************************************************)
NextIngest ==
  \/ \E data \in DataSets, d \in BOOLEAN : insert_data_begin(data, d)
  \/ insert_data_statement
  \/ insert_data_commit

SpecIngest == Init /\ [][NextIngest]_vars

(***************************************************************************)
(* Chart endpoints of agent.py: the period parameter selects an interval   *)
(* that is spliced into the SQL text.  A text is a sequence of pieces.     *)
(***************************************************************************)
ChartEndpoints ==
  {"agent.get_dashboard_charts", "agent.get_category_breakdown",
   "agent.get_income_vs_expense"}

\* values of the period query parameter
Periods ==
  {"3months", "6months", "1year", "2years", "1month", "6MONTHS", "7 days",
   "1 day'; DROP TABLE Users; --"}

\* period.lower()
Lower(period) ==
  CASE period = "6MONTHS" -> "6months"
    [] period = "1 day'; DROP TABLE Users; --" -> "1 day'; drop table users; --"
    [] OTHER -> period

\* interval_map of each endpoint
interval_map(endpoint) ==
  CASE endpoint = "agent.get_dashboard_charts" ->
         [p \in {"3months", "6months", "1year", "2years"} |->
            CASE p = "3months" -> "3 months" [] p = "6months" -> "6 months"
              [] p = "1year" -> "12 months" [] OTHER -> "24 months"]
    [] endpoint = "agent.get_category_breakdown" ->
         [p \in {"1month", "3months", "6months", "1year"} |->
            CASE p = "1month" -> "1 month" [] p = "3months" -> "3 months"
              [] p = "6months" -> "6 months" [] OTHER -> "12 months"]
    [] OTHER ->
         [p \in {"3months", "6months", "1year"} |->
            CASE p = "3months" -> "3 months" [] p = "6months" -> "6 months"
              [] OTHER -> "12 months"]

\* the second argument of interval_map.get(...)
DefaultInterval(endpoint) ==
  IF endpoint = "agent.get_category_breakdown" THEN "3 months" ELSE "6 months"

\* (mutant of interval_value: an unrecognised period is used as it is)
interval_value_PassesThrough(endpoint, period) ==
  Get(interval_map(endpoint), Lower(period), Lower(period))

\* interval_value = interval_map.get(period.lower(), <default>)
interval_value(endpoint, period) ==
  Get(interval_map(endpoint), Lower(period), DefaultInterval(endpoint))

RECURSIVE Replace(_, _, _)
\* text.replace(old, new): every occurrence of the piece old becomes the
\* pieces of new
Replace(text, old, new) ==
  IF text = <<>> THEN <<>>
  ELSE (IF Head(text) = old THEN new ELSE <<Head(text)>>)
       \o Replace(Tail(text), old, new)

\* f"'{interval_value}'"
Quoted(v) == <<"'", v, "'">>

\* the SQL texts of the chart handlers as written in the source
ChartTemplate(query) ==
  CASE query = "spending" ->
         <<"SELECT TO_CHAR(DATE_TRUNC('month', date), 'Mon') AS month, SUM(ABS(amount)) AS total_spending FROM Transactions WHERE user_id = :user_id AND type = 'expense' AND date >= CURRENT_DATE - INTERVAL ",
           ":interval_val", " GROUP BY DATE_TRUNC('month', date), month ORDER BY DATE_TRUNC('month', date)">>
    [] query = "savings" ->
         <<"SELECT TO_CHAR(DATE_TRUNC('month', date), 'Mon') AS month, SUM(CASE WHEN type = 'income' THEN amount ELSE -ABS(amount) END) AS net_savings FROM Transactions WHERE user_id = :user_id AND date >= CURRENT_DATE - INTERVAL ",
           ":interval_val", " GROUP BY DATE_TRUNC('month', date), month ORDER BY DATE_TRUNC('month', date)">>
    [] query = "portfolio" ->
         <<"SELECT COALESCE(SUM(current_value), 65000) FROM Investments WHERE user_id = :user_id">>
    [] query = "allocation" ->
         <<"SELECT CASE WHEN type = 'stock' THEN 'Stocks' WHEN type = 'mutual_fund' THEN 'Bonds' WHEN type = 'etf' THEN 'Real Estate' ELSE 'Crypto' END AS allocation_category, SUM(current_value) AS total_value FROM Investments WHERE user_id = :user_id GROUP BY allocation_category ORDER BY total_value DESC">>
    [] query = "category" ->
         <<"SELECT category, SUM(ABS(amount)) AS total_amount, COUNT(*) AS transaction_count FROM Transactions WHERE user_id = :user_id AND type = 'expense' AND date >= CURRENT_DATE - INTERVAL ",
           ":interval_val", " GROUP BY category ORDER BY total_amount DESC LIMIT 10">>
    [] OTHER ->
         <<"SELECT TO_CHAR(DATE_TRUNC('month', date), 'Mon YYYY') AS month, SUM(CASE WHEN type = 'income' THEN amount ELSE 0 END) AS total_income, SUM(CASE WHEN type = 'expense' THEN ABS(amount) ELSE 0 END) AS total_expense FROM Transactions WHERE user_id = :user_id AND date >= CURRENT_DATE - INTERVAL ",
           ":interval_val", " GROUP BY DATE_TRUNC('month', date), month ORDER BY DATE_TRUNC('month', date)">>

\* conn.execute(sqlalchemy.text(<template>.replace(":interval_val",
\* f"'{interval_value}'")), {"user_id": user_id})
ChartStatement(query, endpoint, user_id, period) ==
  [text |-> Replace(ChartTemplate(query), ":interval_val",
                    Quoted(interval_value(endpoint, period))),
   params |-> [user_id |-> user_id]]

\* whether a chart is drawn from the rows a query returned or from the
\* sample data of the source: a user without rows gets the sample, and so
\* does one whose rows all fall outside the interval
Series(rows, in_interval) ==
  IF rows = <<>> \/ ~in_interval THEN "sample" ELSE "rows"

\* GET /api/v1/dashboard/charts
get_dashboard_charts(user_id, period, db_up, in_interval) ==
  LET eng == get_engine(db_up)
      endpoint == "agent.get_dashboard_charts"
      request == [user_id |-> user_id, period |-> period]
  IN /\ IF eng.raised
          THEN /\ sql' = <<>>
               /\ resp' = Resp(endpoint, request, db_up,
                               ErrorResponse(AgentExcept(eng.error)))
          ELSE /\ sql' = <<ChartStatement("spending", endpoint, user_id, period),
                           ChartStatement("savings", endpoint, user_id, period),
                           ChartStatement("portfolio", endpoint, user_id, period),
                           ChartStatement("allocation", endpoint, user_id, period)>>
               /\ resp' = Resp(endpoint, request, db_up, OkResponse(
                    [spending_chart |-> Series(Transactions[user_id], in_interval),
                     savings_chart |-> Series(Transactions[user_id], in_interval),
                     investment_chart |->
                       IF Investments[user_id] = <<>> THEN 65000
                       ELSE Sum(Investments[user_id]),
                     allocation_chart |-> Series(Investments[user_id], TRUE),
                     period |-> period]))
     /\ engines' = create_engine(engines, "agent")
     /\ engines'.agent <= MaxEngines
     /\ UNCHANGED <<tables, full_chain, chat, conns, ingest>>

\* GET /api/v1/dashboard/charts/category-breakdown
get_category_breakdown(user_id, period, db_up, in_interval) ==
  LET eng == get_engine(db_up)
      endpoint == "agent.get_category_breakdown"
      request == [user_id |-> user_id, period |-> period]
  IN /\ IF eng.raised
          THEN /\ sql' = <<>>
               /\ resp' = Resp(endpoint, request, db_up,
                               ErrorResponse(AgentExcept(eng.error)))
          ELSE /\ sql' = <<ChartStatement("category", endpoint, user_id, period)>>
               /\ resp' = Resp(endpoint, request, db_up, OkResponse(
                    [chart |-> Series(Transactions[user_id], in_interval),
                     period |-> period]))
     /\ engines' = create_engine(engines, "agent")
     /\ engines'.agent <= MaxEngines
     /\ UNCHANGED <<tables, full_chain, chat, conns, ingest>>

\* GET /api/v1/dashboard/charts/income-vs-expense
get_income_vs_expense(user_id, period, db_up, in_interval) ==
  LET eng == get_engine(db_up)
      endpoint == "agent.get_income_vs_expense"
      request == [user_id |-> user_id, period |-> period]
  IN /\ IF eng.raised
          THEN /\ sql' = <<>>
               /\ resp' = Resp(endpoint, request, db_up,
                               ErrorResponse(AgentExcept(eng.error)))
          ELSE /\ sql' = <<ChartStatement("comparison", endpoint, user_id, period)>>
               /\ resp' = Resp(endpoint, request, db_up, OkResponse(
                    [chart |-> Series(Transactions[user_id], in_interval),
                     period |-> period]))
     /\ engines' = create_engine(engines, "agent")
     /\ engines'.agent <= MaxEngines
     /\ UNCHANGED <<tables, full_chain, chat, conns, ingest>>

(***************************************************************************)
(* SpecCharts: the chart endpoints over an empty or seeded store.          *)
(***************************************************************************)
NextCharts ==
  \/ \E u \in UserIds, p \in Periods, d, i \in BOOLEAN :
       get_dashboard_charts(u, p, d, i)
  \/ \E u \in UserIds, p \in Periods, d, i \in BOOLEAN :
       get_category_breakdown(u, p, d, i)
  \/ \E u \in UserIds, p \in Periods, d, i \in BOOLEAN :
       get_income_vs_expense(u, p, d, i)

SpecCharts == Init /\ [][NextCharts]_vars

(***************************************************************************)
(* Claims about the chat pipeline, checked under SpecChat.                 *)
(***************************************************************************)
Working == {"Reformulating", "Executing", "Synthesizing"}

\* C1: when the SQL execution stage is invoked for a user whose six
\* permission flags are all false, the schema it is handed holds no table
\* or column of a denied category.
C1_DeniedNeverExposed ==
  [][(/\ chat.stage = "Reformulating"
      /\ chat'.stage = "Executing"
      /\ UserExists(Users, chat.user_id)
      /\ DeniedCategories(Users, chat.user_id) = Categories)
     => chat'.chain.db \cap DeniedCategories(Users', chat'.user_id) = {}]_vars

\* C2: a chat request that starts right after an update-permissions call
\* setting perm_assets=false for its user has completed is not given the
\* assets category.
C2_RevocationTakesEffect ==
  [][(/\ chat'.id = chat.id + 1
      /\ resp.endpoint = "agent.update_ai_permissions"
      /\ resp.response.status_code = 200
      /\ resp.request.user_id = chat'.user_id
      /\ Get(resp.request.permissions, "perm_assets", TRUE) = FALSE
      /\ UserExists(Users, chat'.user_id)
      /\ ~Users[chat'.user_id].perm_assets
      /\ ~NotInitialized(chat'.chain))
     => "assets" \notin chat'.chain.db]_vars

\* C3: a chat request for a user_id with no Users row ends in NotFound and
\* no stage of the pipeline is invoked for it.
C3_UnknownUserNotFound ==
  (/\ chat.stage # "Idle"
   /\ ~NotInitialized(chat.chain)
   /\ ~UserExists(Users, chat.user_id))
  => (/\ chat.stage = "Failed"
      /\ chat.response.status_code = 404
      /\ chat.calls = NoCalls)

\* C4: the chat endpoint has exactly three outcomes: 503 iff the handle was
\* None when the request was handled (no stage invoked); 500 with the
\* exception message iff a stage raised; otherwise 200 with the request's
\* user_id and question and the synthesis stage's output as answer.
C4_ChatOutcomes ==
  /\ chat.stage \in Working => chat.response = NoValue /\ chat.chain # None
  /\ chat.stage \in {"Rejected", "Done", "Failed"} =>
       /\ chat.response.status_code \in {503, 500, 200}
       /\ (chat.response.status_code = 503) <=> (chat.chain = None)
       /\ chat.response.status_code = 503 =>
            chat.stage = "Rejected" /\ chat.calls = NoCalls
       /\ (chat.response.status_code = 500) <=> (chat.error # NoValue)
       /\ chat.response.status_code = 500 =>
            /\ chat.stage = "Failed"
            /\ chat.response.detail =
                 <<"An internal error occurred: ">> \o chat.error.exception.message
       /\ chat.response.status_code = 200 =>
            /\ chat.stage = "Done"
            /\ chat.response.body.user_id = chat.user_id
            /\ chat.response.body.question = chat.question
            /\ chat.response.body.answer = chat.answer
            /\ chat.answer = Synthesize(chat.synth_input)

C4_Witness ==
  /\ chat.id = 2
  /\ chat.stage = "Done"
  /\ chat.response.status_code = 200
  /\ chat.response.body.answer.kind = "answer"

\* C5: within one request the stages run Reformulating -> Executing ->
\* Synthesizing -> Done; execution receives exactly the reformulation
\* output, synthesis receives the original question with the execution
\* output; Failed is entered only from a working stage and is never left.
C5_StageOrder ==
  [][chat' # chat =>
      \/ /\ chat'.id = chat.id + 1
         /\ chat.stage \in Resting
         /\ chat'.stage \in {"Checked", "Rejected"}
      \/ /\ chat'.id = chat.id
         /\ <<chat.stage, chat'.stage>> \in
              {<<"Checked", "Reformulating">>,
               <<"Reformulating", "Executing">>, <<"Executing", "Synthesizing">>,
               <<"Synthesizing", "Done">>, <<"Reformulating", "Failed">>,
               <<"Executing", "Failed">>, <<"Synthesizing", "Failed">>}
         /\ chat'.stage = "Executing" =>
              /\ chat'.x.reformulated_question.kind = "reformulated"
              /\ chat'.sql_input = chat'.x.reformulated_question
         /\ chat'.stage = "Synthesizing" =>
              /\ chat'.x.sql_data.kind = "sql_data"
              /\ chat'.x.reformulated_question = chat.sql_input
              /\ chat'.synth_input.sql_data = chat'.x.sql_data
              /\ chat'.synth_input.original_question = chat.question
              /\ chat'.synth_input.original_question # chat.x.reformulated_question
         /\ chat'.stage = "Done" =>
              /\ chat'.answer.original_question = chat.question
              /\ chat'.answer.sql_data = chat.x.sql_data]_vars

C5_Witness ==
  /\ chat.stage = "Done"
  /\ chat.sql_input = Reformulate([question |-> chat.question, user_id |-> chat.user_id])
  /\ chat.synth_input.original_question = chat.question
  /\ chat.calls = [reformulate |-> 1, sql |-> 1, synthesize |-> 1]

\* C6: if the reformulation call fails, the request ends in a failure
\* response and the SQL agent is never invoked for it; the SQL agent's
\* input is always a reformulation output, never the raw question.
C6_ReformulationFailurePropagates ==
  /\ (chat.error # NoValue /\ chat.error.stage = "Reformulating") =>
       /\ chat.stage = "Failed"
       /\ chat.response.status_code = 500
       /\ chat.calls.sql = 0
       /\ chat.sql_input = NoValue
  /\ chat.calls.sql > 0 =>
       /\ chat.sql_input.kind = "reformulated"
       /\ chat.sql_input # chat.question
  /\ (chat.stage = "Reformulating") => (chat.calls.sql = 0 /\ chat.sql_input = NoValue)

C6_Witness ==
  /\ chat.stage = "Failed"
  /\ chat.error.stage = "Reformulating"
  /\ chat.response.status_code = 500

\* C7: a step of a chat request leaves the Users, Transactions, Assets,
\* Liabilities and Investments tables as they were.
C7_ChatNeverMutates ==
  [][chat' # chat => UNCHANGED tables]_vars

(***************************************************************************)
(* Claims about the user CRUD handlers, checked under SpecCrud.            *)
(***************************************************************************)
CreateEndpoints == {"agent.create_user", "router.create_user"}

GetEndpoints ==
  {"agent.get_current_user", "agent.get_profile_summary",
   "agent.get_dashboard_overview", "agent.get_dashboard_summary",
   "router.get_current_user", "router.get_profile_summary"}

RequiredFields == {"user_id", "name"}

\* C8: create-user with only user_id and name, for a user_id without a row,
\* succeeds and leaves a row with all six flags true; a body missing
\* user_id or name is answered 400 and inserts nothing.
C8_CreateUserDefaults ==
  [][resp'.endpoint \in CreateEndpoints =>
      /\ (/\ DOMAIN resp'.request = RequiredFields
          /\ ~UserExists(Users, resp'.request.user_id)
          /\ resp'.db_up)
         => /\ resp'.response.status_code = 200
            /\ UserExists(Users', resp'.request.user_id)
            /\ \A f \in PermFlags : Users'[resp'.request.user_id][f]
      /\ ~(RequiredFields \subseteq DOMAIN resp'.request)
         => /\ resp'.response.status_code = 400
            /\ Users' = Users]_vars

\* C9: create-user for a user_id that already has a row is answered 409
\* and leaves the row unchanged, on both create endpoints.
C9_DuplicateCreateConflict ==
  [][(/\ resp'.endpoint \in CreateEndpoints
      /\ RequiredFields \subseteq DOMAIN resp'.request
      /\ resp'.db_up
      /\ UserExists(Users, resp'.request.user_id))
     => /\ resp'.response.status_code = 409
        /\ Users' = Users]_vars

\* C10: a GET endpoint taking a user_id answers 404 (not 500, not a body of
\* defaults) when no Users row has that user_id.
C10_GetUnknownUserNotFound ==
  (/\ resp.endpoint \in GetEndpoints
   /\ resp.db_up
   /\ ~UserExists(Users, resp.request.user_id))
  => resp.response.status_code = 404

\* C14: POST /update-profile of Routers/Users.py answers 400 and leaves the
\* row unchanged when the body has neither credit_score nor epf_balance,
\* and does not answer 400 when the body supplies at least one of the two,
\* whatever its value.
C14_UpdateProfileValidation ==
  [][resp'.endpoint = "router.update_user_profile" =>
      IF DOMAIN resp'.request.body \cap {"credit_score", "epf_balance"} = {}
        THEN /\ resp'.response.status_code = 400
             /\ Users' = Users
        ELSE resp'.response.status_code # 400]_vars

\* C16: no process ever builds more than one engine, and a request made
\* while the database is unreachable is answered with the provider's error.
C16_OneEnginePerProcess ==
  /\ \A p \in Processes : engines[p] <= 1
  /\ (resp.endpoint \in GetEndpoints /\ ~resp.db_up)
       => resp.response.status_code = 500

\* C18: POST /ask answers 503 'AI Agent is not initialized' when the agent
\* is not initialized, and otherwise answers {user_id, question, answer} or
\* the 500 of the handler's except clause; it fails in no other way.
C18_AskOutcomes ==
  [][resp'.endpoint = "agent.ask_agent" =>
      IF NotInitialized(full_chain)
        THEN resp'.response.status_code = 503
        ELSE \/ /\ resp'.response.status_code = 200
                /\ resp'.response.body.user_id = resp'.request.user_id
                /\ resp'.response.body.question = resp'.request.question
             \/ /\ resp'.response.status_code = 500
                /\ Head(resp'.response.detail) = "An internal error occurred: "]_vars

(***************************************************************************)
(* Claims about the permission endpoints, checked under SpecSettings.      *)
(***************************************************************************)
PutPermissionEndpoints == {"agent1.update_permissions", "main.update_permissions"}

\* C11: PUT /api/v1/user/{user_id}/permissions answers 404 and changes
\* nothing when no Users row has that user_id, and answers 200 with the six
\* flags of the row set to the six booleans of the body when the row exists.
C11_PutPermissions ==
  [][(resp'.endpoint \in PutPermissionEndpoints /\ resp'.db_up)
     => IF UserExists(Users, resp'.request.user_id)
          THEN /\ resp'.response.status_code = 200
               /\ Permissions(Users'[resp'.request.user_id])
                    = resp'.request.permissions
          ELSE /\ resp'.response.status_code = 404
               /\ Users' = Users]_vars

\* C12: a GET /api/v1/user/{u}/permissions that directly follows a
\* successful PUT of P for u returns exactly P; a successful PUT leaves the
\* row holding P, so repeating it changes nothing; a GET returns the row's
\* six flags, and 404 when u has no row.
C12_PermissionRoundTrip ==
  [][/\ (/\ resp.endpoint = "agent1.update_permissions"
         /\ resp.response.status_code = 200
         /\ resp'.endpoint = "agent1.get_permissions"
         /\ resp'.request.user_id = resp.request.user_id
         /\ resp'.db_up)
        => /\ resp'.response.status_code = 200
           /\ resp'.response.body = resp.request.permissions
     /\ (/\ resp'.endpoint = "agent1.update_permissions"
         /\ resp'.response.status_code = 200
         /\ engines' # engines)
        => /\ Permissions(Users'[resp'.request.user_id])
                = resp'.request.permissions
           /\ (Permissions(Users[resp'.request.user_id])
                 = resp'.request.permissions) => Users' = Users
     /\ (/\ resp'.endpoint = "agent1.get_permissions"
         /\ resp'.db_up
         /\ engines' # engines)
        => IF UserExists(Users, resp'.request.user_id)
             THEN /\ resp'.response.status_code = 200
                  /\ resp'.response.body
                       = Permissions(Users[resp'.request.user_id])
             ELSE resp'.response.status_code = 404]_vars

C12_Witness ==
  /\ resp.endpoint = "agent1.get_permissions"
  /\ resp.response.status_code = 200
  /\ resp.response.body = [AllFlags(FALSE) EXCEPT !["perm_epf_balance"] = TRUE]

\* C19: GET /ping-db of app/main.py answers 200 'alive and well' whenever
\* the database is reachable and 500 only when it is not; the other
\* handlers of app/main.py get a working connection the same way.
C19_PingDb ==
  /\ resp.endpoint = "main.ping_db" =>
       /\ resp.db_up => resp.response.status_code = 200
       /\ resp.response.status_code = 500 => ~resp.db_up
  /\ (resp.endpoint = "main.get_current_user" /\ resp.db_up) =>
       resp.response.status_code \in {200, 404}

(***************************************************************************)
(* Claims about the record and account handlers, checked under             *)
(* SpecRecords.                                                            *)
(***************************************************************************)
AddEndpoints ==
  {"agent.add_transaction", "agent.add_asset", "agent.add_liability",
   "agent.add_investment"}

\* the rows of user_id in the four child tables
RecordsOf(T, A, L, I, user_id) ==
  <<T[user_id], A[user_id], L[user_id], I[user_id]>>

NoRecords == <<<<>>, <<>>, <<>>, <<>>>>

\* every row of the child tables has a user_id with a Users row
ReferentialIntegrity ==
  \A u \in UserIds :
    RecordsOf(Transactions, Assets, Liabilities, Investments, u) # NoRecords
      => UserExists(Users, u)

\* C13: in every reachable state every row of Transactions, Assets,
\* Liabilities and Investments has a user_id for which a Users row exists,
\* whatever the interleaving of create-user, add-record and delete-account
\* statements; an add-record request for a user_id without a Users row
\* stores nothing.
C13_ReferentialIntegrity ==
  /\ []ReferentialIntegrity
  /\ [][(/\ resp'.endpoint \in AddEndpoints
          /\ engines' # engines
          /\ conns' = conns
          /\ ~UserExists(Users, resp'.request.user_id))
         => /\ UNCHANGED tables
            /\ resp'.response.status_code # 200]_vars

\* a delete-account whose DELETE FROM Users met a record added after the
\* transaction's own DELETE of that table: everything is still there
C13_Witness ==
  /\ resp.endpoint \in DeleteHandlers
  /\ resp.response.status_code = 500
  /\ \E d \in {<<"IntegrityError: ", "foreign key user_id">>} :
       resp.response.detail \in {d, <<"Database error: ">> \o d}
  /\ UserExists(Users, resp.request.user_id)
  /\ Len(Assets[resp.request.user_id]) = 2

\* a delete-account request is answered in this step: by its last
\* statement, or straight from the existence check
DeleteAnswered ==
  /\ resp'.endpoint \in DeleteHandlers
  /\ \/ \E s \in Slots : conns[s].stage = "Deleting" /\ conns'[s].stage = "Idle"
     \/ engines' # engines /\ conns' = conns

\* the rows of every user but user_id are as they were
OthersUntouched(user_id) ==
  \A v \in UserIds \ {user_id} :
    /\ UserExists(Users', v) <=> UserExists(Users, v)
    /\ UserExists(Users, v) => Users'[v] = Users[v]
    /\ RecordsOf(Transactions', Assets', Liabilities', Investments', v)
         = RecordsOf(Transactions, Assets, Liabilities, Investments, v)

\* C15: a delete-account that succeeds leaves no row of the user in Users,
\* Transactions, Assets, Liabilities or Investments and the rows of other
\* users untouched; for a user without a row it answers 404 and deletes
\* nothing; when it fails nothing is committed.
C15_DeleteAccountAtomic ==
  [][DeleteAnswered =>
      /\ resp'.response.status_code = 200 =>
           /\ ~UserExists(Users', resp'.request.user_id)
           /\ RecordsOf(Transactions', Assets', Liabilities', Investments',
                        resp'.request.user_id) = NoRecords
           /\ OthersUntouched(resp'.request.user_id)
      /\ resp'.response.status_code # 200 => UNCHANGED tables
      /\ (/\ conns' = conns
          /\ resp'.db_up
          /\ ~UserExists(Users, resp'.request.user_id))
         => /\ resp'.response.status_code = 404
            /\ UNCHANGED tables]_vars

\* a create-user request carrying a user_id is answered in this step
CreateAnswered ==
  /\ resp'.endpoint \in CreateHandlers
  /\ \/ \E s \in Slots : conns[s].stage = "Inserting" /\ conns'[s].stage = "Idle"
     \/ engines' # engines /\ conns' = conns

\* the response reports a failure of the database itself
DbFailure(response) ==
  \E msg \in DbErrors :
    response.detail \in {<<msg>>, <<"Database error: ", msg>>}

\* C20: whatever the interleaving of create-user requests with the same
\* user_id, a request answered while a row with its user_id exists gets
\* 409 and changes nothing, and a request answered while none exists gets
\* 200 and adds exactly that row: one row, one success, and Conflict (not
\* 500) for the other request.
C20_ConcurrentCreate ==
  [][(CreateAnswered /\ resp'.db_up /\ ~DbFailure(resp'.response)) =>
      IF UserExists(Users, resp'.request.user_id)
        THEN /\ resp'.response.status_code = 409
             /\ Users' = Users
        ELSE /\ resp'.response.status_code = 200
             /\ DOMAIN Users' = DOMAIN Users \cup {resp'.request.user_id}
             /\ OthersUntouched(resp'.request.user_id)]_vars

(***************************************************************************)
(* Claims about the ingestion script, checked under SpecIngest.            *)
(***************************************************************************)
RECURSIVE RowsIn(_, _, _)
\* the items of list `key` that data holds for user_id, in input order
RowsIn(data, key, user_id) ==
  IF data = <<>> THEN <<>>
  ELSE (IF Head(data).user_id = user_id THEN Get(Head(data), key, <<>>)
                                        ELSE <<>>)
       \o RowsIn(Tail(data), key, user_id)

\* every user and every record of data has been added to the store
AllInserted(data) ==
  /\ DOMAIN Users' = DOMAIN Users \cup {data[i].user_id : i \in 1..Len(data)}
  /\ \A u \in DOMAIN Users : Users'[u] = Users[u]
  /\ \A u \in UserIds :
       /\ Transactions'[u] = Transactions[u] \o RowsIn(data, "transactions", u)
       /\ Assets'[u] = Assets[u] \o RowsIn(data, "assets", u)
       /\ Liabilities'[u] = Liabilities[u] \o RowsIn(data, "liabilities", u)
       /\ Investments'[u] = Investments[u] \o RowsIn(data, "investments", u)

\* C17: a run of insert_data either stores every user and every record of
\* the input, or, when any insert fails, stores nothing, whatever had been
\* inserted for earlier users; until the commit no row is stored; and a
\* record is only ever inserted after the Users row of its user.
C17_IngestAllOrNothing ==
  [][ingest' # ingest =>
      /\ ingest'.status = "committed"
           => /\ AllInserted(ingest.data)
              /\ ingest.pc = Len(Statements(ingest.data))
      /\ ingest'.status # "committed" => UNCHANGED tables
      /\ (ingest'.status = "running" /\ ingest'.pc = ingest.pc + 1
           /\ Statements(ingest.data)[ingest'.pc].table # "Users")
           => \E i \in 1..ingest.pc :
                /\ Statements(ingest.data)[i].table = "Users"
                /\ Statements(ingest.data)[i].user.user_id
                     = Statements(ingest.data)[ingest'.pc].user.user_id]_vars

\* the second user of the input failed on its Users row after the first
\* user and both of its records had been inserted: nothing is stored
C17_Witness ==
  /\ ingest.status = "rolled_back"
  /\ ingest.pc = 3
  /\ Len(ingest.data) = 2
  /\ Users = SeedUsers
  /\ Assets = SeedRows(10000)
  /\ Transactions = SeedRows(-50)

(***************************************************************************)
(* Further claims about the chat pipeline and the handle, checked under    *)
(* SpecChat.                                                               *)
(***************************************************************************)
\* the calls a request has made when `stage` is running or has just ended
CallsUpTo(stage) ==
  CASE stage = "Reformulating" -> [reformulate |-> 1, sql |-> 0, synthesize |-> 0]
    [] stage = "Executing" -> [reformulate |-> 1, sql |-> 1, synthesize |-> 0]
    [] stage \in {"Synthesizing", "Done"} ->
         [reformulate |-> 1, sql |-> 1, synthesize |-> 1]
    [] OTHER -> NoCalls

\* C21: within one chat request the reformulation call, the SQL agent call
\* and the synthesis call are each made at most once (nothing is retried),
\* and once a stage has failed no further call is made for that request.
C21_NoRetry ==
  /\ [](/\ \A k \in DOMAIN chat.calls : chat.calls[k] \in {0, 1}
        /\ chat.stage \in Working \cup {"Done", "Rejected"}
             => chat.calls = CallsUpTo(chat.stage)
        /\ chat.stage = "Failed" => chat.calls = CallsUpTo(chat.error.stage))
  /\ [][(chat.stage = "Failed" /\ chat'.id = chat.id) => chat' = chat]_vars

\* a request whose SQL agent call failed: one reformulation call, one SQL
\* agent call, no synthesis call
C21_Witness ==
  /\ chat.stage = "Failed"
  /\ chat.error.stage = "Executing"
  /\ chat.calls = [reformulate |-> 1, sql |-> 1, synthesize |-> 0]

(***************************************************************************)
(* Further claims about the user CRUD handlers, checked under SpecCrud.    *)
(***************************************************************************)
RouterEndpoints ==
  {"router.get_current_user", "router.update_user_profile",
   "router.update_ai_permissions", "router.get_profile_summary",
   "router.delete_user_account", "router.create_user"}

\* the request did not pass the handler's check of the body, which comes
\* before get_engine()
BodyRejected(r) ==
  \/ r.endpoint = "router.create_user" /\ MissingField(r.request) # ""
  \/ /\ r.endpoint = "router.update_user_profile"
     /\ Falsy(r.request.body, "credit_score")
     /\ Falsy(r.request.body, "epf_balance")

\* the user_id a request names
RequestUser(r) ==
  IF r.endpoint = "router.create_user" THEN Get(r.request, "user_id", "-")
                                       ELSE r.request.user_id

\* C22: every Routers/Users.py endpoint answers with the status code and
\* detail of the HTTPException its handler raised (400, 404, 409), and with
\* 500 'Database error: <exception text>' for any other exception; no
\* other error response leaves a handler.
C22_RouterErrorMapping ==
  [][resp'.endpoint \in RouterEndpoints =>
      LET r == resp'
          known == UserExists(Users, RequestUser(r))
      IN /\ r.response.status_code \in {200, 400, 404, 409, 500}
         /\ BodyRejected(r) =>
              /\ r.response.status_code = 400
              /\ r.response.detail \in
                   {<<"Missing required field: ", "user_id">>,
                    <<"Missing required field: ", "name">>,
                    <<"At least one field (credit_score or epf_balance) is required">>}
         /\ (~BodyRejected(r) /\ ~r.db_up) =>
              /\ r.response.status_code = 500
              /\ r.response.detail
                   = <<"Database error: ">> \o get_engine(FALSE).error.message
         /\ (~BodyRejected(r) /\ r.db_up) =>
              IF r.endpoint = "router.create_user"
                THEN IF known
                       THEN /\ r.response.status_code = 409
                            /\ r.response.detail = <<"User already exists">>
                       ELSE r.response.status_code = 200
                ELSE IF ~known
                       THEN /\ r.response.status_code = 404
                            /\ r.response.detail = <<"User not found">>
                ELSE IF /\ r.endpoint = "router.get_current_user"
                        /\ Users[RequestUser(r)].epf_balance = SqlNull
                       THEN /\ r.response.status_code = 500
                            /\ r.response.detail
                                 = <<"Database error: ">> \o TypeError("float").message
                ELSE r.response.status_code = 200]_vars

\* update-permissions of Routers/Users.py answered 404 with the detail the
\* handler raised
C22_Witness ==
  /\ resp.endpoint = "router.update_ai_permissions"
  /\ resp.response.status_code = 404
  /\ resp.response.detail = <<"User not found">>

\* C23: full_chain never goes back to None once it holds a chain; a failing
\* reload is answered 500 and leaves full_chain as it was; a succeeding
\* reload installs the complete chain in one step; nothing but a
\* succeeding reload changes full_chain.
C23_HandleMonotone ==
  /\ [](full_chain = None \/ full_chain = SequentialChain(full_chain.engine))
  /\ [][/\ full_chain # None => full_chain' # None
        /\ full_chain' # full_chain =>
             /\ resp'.endpoint = "agent.reload_agent"
             /\ resp'.response.status_code = 200
             /\ full_chain' = SequentialChain(engines'.agent)
        /\ (resp'.endpoint = "agent.reload_agent"
            /\ <<resp', engines'>> # <<resp, engines>>) =>
             /\ resp'.response.status_code \in {200, 500}
             /\ resp'.response.status_code = 500 => full_chain' = full_chain
             /\ resp'.response.status_code = 200 =>
                  full_chain' = SequentialChain(engines'.agent)
             /\ ~resp'.db_up => resp'.response.status_code = 500]_vars

\* a reload failed while a working chain was installed: the chain is kept
C23_Witness ==
  /\ resp.endpoint = "agent.reload_agent"
  /\ resp.response.status_code = 500
  /\ full_chain # None
  /\ full_chain.engine < engines.agent

\* C24: however chat requests and reloads interleave, a request that passed
\* the `if not full_chain` check invokes a complete chain: the one it saw
\* at the check or one a later reload installed, never None; a reload does
\* not touch the chain a request is running; and every stage of a request
\* works on that request's own user_id and question, with nothing left
\* over from the request before it.
C24_ChatReloadInterleaving ==
  /\ [](/\ chat.stage = "Checked" => chat.checked # None
        /\ chat.stage \in Working \cup {"Done"} =>
             /\ chat.chain # None
             /\ chat.chain = SequentialChain(chat.chain.engine)
             /\ \/ chat.chain = chat.checked
                \/ chat.chain.engine > chat.checked.engine
        /\ chat.stage = "Failed" => chat.error.stage \in Working
        /\ chat.x # NoValue =>
             /\ chat.x.original_question = chat.question
             /\ chat.x.reformulated_question.user_id = chat.user_id
             /\ chat.x.reformulated_question.question = chat.question
        /\ chat.stage = "Done" =>
             /\ chat.response.body.user_id = chat.user_id
             /\ chat.response.body.answer.original_question = chat.question
             /\ chat.response.body.answer.sql_data.statement.user_id = chat.user_id)
  /\ [][/\ (chat.stage = "Checked" /\ chat' # chat) =>
             /\ chat'.stage = "Reformulating"
             /\ chat'.chain = full_chain
        /\ (chat.stage \in Working /\ chat' # chat) =>
             /\ chat'.chain = chat.chain
             /\ chat'.user_id = chat.user_id
             /\ chat'.question = chat.question
        /\ chat'.id # chat.id =>
             /\ chat.stage \in Resting
             /\ chat'.x = NoValue /\ chat'.sql_input = NoValue
             /\ chat'.synth_input = NoValue /\ chat'.answer = NoValue
             /\ chat'.error = NoValue /\ chat'.calls = NoCalls]_vars

\* a reload replaced the handle between a request's check and its invoke:
\* the request runs the newly installed chain
C24_Witness ==
  /\ chat.stage \in Working
  /\ chat.chain # chat.checked
  /\ chat.chain = full_chain

UpdateProfileEndpoints ==
  {"agent.update_user_profile", "router.update_user_profile"}

\* C26: a successful update-profile call writes credit_score and
\* epf_balance both: each is afterwards the body's value if the body names
\* it and NULL if it does not, so naming one field overwrites the other;
\* name, the permission flags and every other row are unchanged.
C26_ProfileFullOverwrite ==
  [][(/\ resp'.endpoint \in UpdateProfileEndpoints
      /\ engines' # engines
      /\ resp'.response.status_code = 200) =>
       LET u == resp'.request.user_id
           body == resp'.request.body
       IN /\ UserExists(Users, u)
          /\ DOMAIN Users' = DOMAIN Users
          /\ \A col \in {"credit_score", "epf_balance"} :
               Users'[u][col] = IF col \in DOMAIN body THEN body[col] ELSE SqlNull
          /\ \A col \in DOMAIN Users[u] \ {"credit_score", "epf_balance"} :
               Users'[u][col] = Users[u][col]
          /\ \A o \in DOMAIN Users \ {u} : Users'[o] = Users[o]]_vars

\* a call naming only credit_score succeeded: epf_balance, which no row is
\* created without, is NULL
C26_Witness ==
  /\ resp.endpoint \in UpdateProfileEndpoints
  /\ resp.response.status_code = 200
  /\ DOMAIN resp.request.body = {"credit_score"}
  /\ Users[resp.request.user_id].credit_score = resp.request.body.credit_score
  /\ Users[resp.request.user_id].epf_balance = SqlNull

\* C28: for an existing user GET /api/v1/dashboard reports net_worth =
\* total_assets + total_investments - total_liabilities and
\* stats.total_records = the sum of the four counts, every total and count
\* taken over the rows of that user alone (0 without rows).
C28_DashboardTotals ==
  [][(/\ resp'.endpoint = "agent.get_dashboard_overview"
      /\ engines' # engines
      /\ resp'.db_up
      /\ UserExists(Users, resp'.request.user_id)) =>
       LET u == resp'.request.user_id
           body == resp'.response.body
       IN /\ resp'.response.status_code = 200
          /\ body.financial_summary.total_assets = Sum(Assets[u])
          /\ body.financial_summary.total_investments = Sum(Investments[u])
          /\ body.financial_summary.total_liabilities = Sum(Liabilities[u])
          /\ body.financial_summary.net_worth
               = body.financial_summary.total_assets
                 + body.financial_summary.total_investments
                 - body.financial_summary.total_liabilities
          /\ body.stats.transaction_count = Len(Transactions[u])
          /\ body.stats.asset_count = Len(Assets[u])
          /\ body.stats.investment_count = Len(Investments[u])
          /\ body.stats.liability_count = Len(Liabilities[u])
          /\ body.stats.total_records
               = body.stats.transaction_count + body.stats.asset_count
                 + body.stats.investment_count + body.stats.liability_count]_vars

(***************************************************************************)
(* Further claims about the permission endpoints, checked under            *)
(* SpecSettings.                                                           *)
(***************************************************************************)
DictPermissionEndpoints ==
  {"agent.update_ai_permissions", "router.update_ai_permissions"}

\* C25: a successful update-permissions call with a dict body (agent.py
\* and Routers/Users.py) writes all six flags: each flag of the user's row
\* is afterwards the body's value if the body names it and true if it does
\* not, whatever it was before; the rest of the row and the other rows stay.
C25_PermissionsFullOverwrite ==
  [][(/\ resp'.endpoint \in DictPermissionEndpoints
      /\ engines' # engines
      /\ resp'.response.status_code = 200) =>
       LET u == resp'.request.user_id
           body == resp'.request.permissions
       IN /\ UserExists(Users, u)
          /\ DOMAIN Users' = DOMAIN Users
          /\ \A f \in PermFlags :
               Users'[u][f] = IF f \in DOMAIN body THEN body[f] ELSE TRUE
          /\ \A col \in DOMAIN Users[u] \ PermFlags : Users'[u][col] = Users[u][col]
          /\ \A o \in DOMAIN Users \ {u} : Users'[o] = Users[o]]_vars

\* a call whose body names only perm_assets (false) succeeded: the five
\* flags it does not name are true
C25_Witness ==
  /\ resp.endpoint \in DictPermissionEndpoints
  /\ resp.response.status_code = 200
  /\ DOMAIN resp.request.permissions = {"perm_assets"}
  /\ ~Users[resp.request.user_id].perm_assets
  /\ \A f \in PermFlags \ {"perm_assets"} : Users[resp.request.user_id][f]
  /\ engines.agent >= 2

(***************************************************************************)
(* Claims about the chart endpoints, checked under SpecCharts.             *)
(***************************************************************************)
Range(f) == {f[x] : x \in DOMAIN f}

\* the pieces of the SQL texts that are written in the source
SourcePieces ==
  UNION {Range(ChartTemplate(q)) :
           q \in {"spending", "savings", "portfolio", "allocation",
                  "category", "comparison"}}
  \ {":interval_val"}

\* the interval literals of a text: the pieces between two quote pieces
Intervals(text) ==
  {text[j] : j \in {k \in 2..(Len(text) - 1) :
                      text[k - 1] = "'" /\ text[k + 1] = "'"}}

\* C27: in the three chart endpoints the interval spliced into the SQL is
\* always a value of the endpoint's interval_map, the endpoint's default
\* for a period that is not a key of the map, and no piece of the SQL comes
\* from the period parameter; the response repeats the period as given.
C27_ChartInterval ==
  [][(resp'.endpoint \in ChartEndpoints /\ engines' # engines) =>
      LET endpoint == resp'.endpoint
          period == resp'.request.period
          values == Range(interval_map(endpoint))
      IN /\ resp'.response.status_code = 200 =>
              /\ resp'.response.body.period = period
              /\ sql' # <<>>
              /\ Intervals(sql'[1].text) # {}
         /\ \A i \in DOMAIN sql' :
              /\ Range(sql'[i].text) \subseteq SourcePieces \cup {"'"} \cup values
              /\ Range(sql'[i].text) \cap {period, Lower(period)} = {}
              /\ Intervals(sql'[i].text) \subseteq values
              /\ Lower(period) \notin DOMAIN interval_map(endpoint) =>
                   Intervals(sql'[i].text) \subseteq {DefaultInterval(endpoint)}
              /\ Lower(period) \in DOMAIN interval_map(endpoint) =>
                   Intervals(sql'[i].text)
                     \subseteq {interval_map(endpoint)[Lower(period)]}]_vars

\* category-breakdown was asked with a period that is no key of its map
\* and carries SQL of its own: the statement has the default '3 months'
\* and the response repeats the period
C27_Witness ==
  /\ resp.endpoint = "agent.get_category_breakdown"
  /\ resp.request.period = "1 day'; DROP TABLE Users; --"
  /\ resp.response.status_code = 200
  /\ resp.response.body.period = resp.request.period
  /\ Len(sql) = 1
  /\ Intervals(sql[1].text) = {"3 months"}

====
